---- MODULE Spec2Model ----
(***************************************************************************)
(* Agent loop (graph/planner_react_agent.py), its compaction sub-engine    *)
(* (graph/summarizer_graph.py and deepsense/summarizer_graph.py), the      *)
(* message history (utils/db_utils.py) and the /query handler              *)
(* (api/main.py) of DPSN-org/deepsense.                                     *)
(*                                                                         *)
(* A content is abstracted to its kind and its length in characters; a raw *)
(* tool result is the sequence of the lengths of its lines.                *)
(***************************************************************************)
EXTENDS Integers, Sequences, FiniteSets, TLC

VARIABLES
    node,                \* position of the running handler / graph
    caller,              \* who called run_planner_react_agent: "api" | "script" | "none"
    session_id,          \* AgentState.session_id (0: none)
    messages,            \* AgentState.messages
    tool_outputs,        \* AgentState.tool_outputs
    current_tool_index,  \* AgentState.current_tool_index
    tool_output,         \* AgentState.tool_output
    tools_bound,         \* AgentState.tools_bound
    steps,               \* supersteps taken by app.invoke in this turn
    sd,                  \* SchemaDiscoveryState of the running sub-engine
    engine,              \* which summarizer_graph module provides discover_schema
    chat_sessions,       \* rows of table chat_sessions (their ids)
    chat_messages,       \* rows of table chat_messages, in insertion order
    agent_states_cache,  \* api/main.py agent_states_cache, LRU first
    result,              \* value returned by run_planner_react_agent
    response,            \* last QueryResponse
    next_call_id,        \* source of fresh tool-call ids
    finish_order,        \* order in which the tools of the last dispatch finished
    turn_log,            \* history: what happened in the current turn
    env,                 \* what the environment may still do (bounds)
    procs,               \* concurrent callers: the local state of each
    sessions_collection, \* deepsense/checkpointer.py: the documents of db["sessions"]
    checkpoints,         \* deepsense/checkpointer.py: the documents of db["checkpoints"]
    store_calls,         \* the number of calls made on the checkpointer
    last_call,           \* history: the last of these calls, and what it returned
    workflow,            \* a turn of the workflow of example/server.py, with its tools
    unit                 \* a function called on its own: what it was given and returned

\* the state of one run of the agent loop and of the stores of api/main.py
loop_vars == <<node, caller, session_id, messages, tool_outputs, current_tool_index,
               tool_output, tools_bound, steps, sd, engine, chat_sessions,
               chat_messages, agent_states_cache, result, response, next_call_id,
               finish_order, turn_log, env>>

\* the state outside that run
\* the stores of deepsense/checkpointer.py and the calls made on the stores
store_vars == <<sessions_collection, checkpoints, store_calls, last_call>>

ext == <<procs, store_vars, workflow, unit>>

vars == <<loop_vars, ext>>

(***************************************************************************)
(* Bounds                                                                  *)
(***************************************************************************)
MaxCalls == 3           \* tool calls per turn (Spec)
MaxCallsPerMsg == 2     \* tool calls on one assistant message
MaxOversize == 1        \* tool results over the threshold per turn
MaxFaults == 1          \* model calls inside the engine that raise and are caught
MaxLong == 1            \* model calls inside the engine that return a long text
MaxReruns == 1          \* later invocations on a session that exists
MaxCallers == 2         \* concurrent callers
MaxSessionIds == 1      \* session ids that callers supply
MaxStoreCalls == 3      \* calls on the checkpointer
MaxTurnCalls == 1       \* tool calls of the turn whose session is deleted
MaxToolResults == 3     \* tool invocations of the turns of the workflow
MaxTurns == 2           \* turns of the workflow on one session
MaxMethods == 3         \* methods registered under one tool name
MaxBlocks == 3          \* blocks (runs of letters, marks, newlines) of a text to chunk
MaxRun == 60            \* letters of the longest run of a text to chunk
MaxTokens == 14         \* max_tokens of a call of chunk_data_by_tokens on its own

(***************************************************************************)
(* Program constants                                                       *)
(***************************************************************************)
RecursionLimit == 50
Threshold == 10000
GraphMaxTokens == 10000
DeepsenseMaxTokens == 5000
BatchSize == 8
SchemaIterationLimit == 3
MAX_CACHE_SIZE == 10

(***************************************************************************)
(* Contents and messages                                                   *)
(***************************************************************************)
RECURSIVE SumSeq(_)
SumSeq(s) == IF s = <<>> THEN 0 ELSE Head(s) + SumSeq(Tail(s))

\* len() of the text made of these lines joined by "\n"
TextLen(lines) == IF lines = <<>> THEN 0 ELSE SumSeq(lines) + Len(lines) - 1

Content(kind, len, lines, uri) ==
    [lines |-> lines, kind |-> kind, len |-> len, uri |-> uri]

Text(len) == Content("text", len, <<>>, "absent")
Raw(lines) == Content("raw", TextLen(lines), lines, "absent")

Msg(type, content, calls, id) ==
    [type |-> type, content |-> content, tool_calls |-> calls, tool_call_id |-> id]

None == Msg("none", Text(0), <<>>, 0)
EmptyList == Msg("list", Text(0), <<>>, 0)

SystemMessage == Msg("system", Text(100), <<>>, 0)
HumanMessage == Msg("human", Text(20), <<>>, 0)
AIMessage(calls) == Msg("ai", Text(30), calls, 0)
ToolMessage(content, id) == Msg("tool", content, <<>>, id)

\* the raw results a tool may return: the lengths of the lines
AtThresholdResult == <<35003>>
OverThresholdResult == <<35004>>
ManyLinesResult == [i \in 1..(BatchSize + 1) |-> 4500]
RawResults == {AtThresholdResult, OverThresholdResult, ManyLinesResult}

\* lengths of the texts a model call inside the engine may return
ShortLen == 40
LongLen == 60000

(***************************************************************************)
(* Token accountant                                                        *)
(***************************************************************************)
estimate_token_count(len) == (len * 2) \div 7

RECURSIVE SplitLine(_, _)
SplitLine(len, char_limit) ==
    IF len <= char_limit THEN <<len>>
    ELSE <<char_limit>> \o SplitLine(len - char_limit, char_limit)

RECURSIVE ChunkLines(_, _)
ChunkLines(lines, max_tokens) ==
    IF lines = <<>> THEN <<>>
    ELSE (IF estimate_token_count(Head(lines)) < max_tokens
          THEN <<Head(lines)>>
          ELSE (IF Head(lines) = 0 THEN <<>> ELSE SplitLine(Head(lines), max_tokens * 4)))
         \o ChunkLines(Tail(lines), max_tokens)

\* chunks carry their position in the chunk list
chunk_data_by_tokens(lines, max_tokens) ==
    LET c == ChunkLines(lines, max_tokens)
    IN  [i \in 1..Len(c) |-> [len |-> c[i], pos |-> i]]


(***************************************************************************)
(* Message history: utils/db_utils.py                                      *)
(***************************************************************************)
Row(sid, type, content, id, nested, seq) ==
    [session_id |-> sid, content |-> content, tool_call_id |-> id, message_type |-> type,
     nested_subgraph |-> nested, sequence_order |-> seq]

Max(S) == CHOOSE x \in S : \A y \in S : y <= x

\* SELECT COALESCE(MAX(sequence_order), 0) + 1 ... ; INSERT ...
save_message(rows, sid, type, content, id, nested) ==
    LET seqs == {rows[i].sequence_order : i \in {j \in 1..Len(rows) : rows[j].session_id = sid}}
        sequence_order == IF seqs = {} THEN 1 ELSE Max(seqs) + 1
    IN  Append(rows, Row(sid, type, content, id, nested, sequence_order))

\* SELECT ... WHERE session_id = %s ORDER BY sequence_order ASC
get_session_messages(rows, sid) ==
    SortSeq(SelectSeq(rows, LAMBDA r : r.session_id = sid),
            LAMBDA a, b : a.sequence_order < b.sequence_order)

\* api/main.py: a stored row back to a message (None for a nested-subgraph row)
convert_db_message_to_langgraph(row) ==
    IF row.nested_subgraph THEN None
    ELSE IF row.message_type = "SystemMessage" THEN Msg("system", row.content, <<>>, 0)
    ELSE IF row.message_type = "HumanMessage" THEN Msg("human", row.content, <<>>, 0)
    ELSE IF row.message_type = "AIMessage" THEN Msg("ai", row.content, <<>>, 0)
    ELSE IF row.message_type = "ToolMessage" THEN Msg("tool", row.content, <<>>, row.tool_call_id)
    ELSE Msg("human", row.content, <<>>, 0)

\* api/main.py: the history of a session as process_user_query rebuilds it
LoadHistory(rows, sid) ==
    LET converted == [i \in 1..Len(get_session_messages(rows, sid)) |->
                        convert_db_message_to_langgraph(get_session_messages(rows, sid)[i])]
    IN  SelectSeq(converted, LAMBDA m : m # None)

(***************************************************************************)
(* Values returned to the caller                                           *)
(***************************************************************************)
NoResult == [messages |-> <<>>, kind |-> "none"]
ErrorValue == [messages |-> <<>>, kind |-> "error"]     \* the string "Error:"
StateValue(msgs) == [messages |-> msgs, kind |-> "state"]

\* status_code: the HTTP status of the answer (0: no request was answered)
NoResponse == [session_id |-> 0, response |-> "none", success |-> FALSE, error |-> "none",
               status_code |-> 0]

SdIdle == [node |-> "idle", steps |-> 0, pending_chunks |-> <<>>, current_chunk |-> 0,
           parallel_chunks |-> <<>>, partial_schemas |-> <<>>, summaries |-> <<>>,
           count |-> 0, processing_mode |-> "schema", final_schema |-> 0,
           final_summary |-> Text(0), ai_message_context |-> ""]

\* removed: the number of documents or rows that the call deleted
Call(op, sid, ret, removed) ==
    [session_id |-> sid, op |-> op, ret |-> ret, removed |-> removed]

NoCall == Call("none", 0, "none", 0)

\* no tool invoked yet
NoTool == [result |-> [type |-> "str", user_action |-> "absent"], builder |-> "none",
           marked |-> FALSE, raises |-> FALSE, known |-> TRUE,
           out |-> [user_action |-> "absent", format |-> "str", top |-> "result",
                    data |-> "none"]]

WorkflowIdle == [pc |-> "idle", turns |-> 0, pending |-> <<>>, tool_messages |-> <<>>,
                 user_actions |-> <<>>, mark |-> 0, returned |-> <<>>,
                 left |-> MaxToolResults, last_tool |-> NoTool]

\* no function called on its own
NoUnit == [fn |-> "none"]

NewLog == [turns |-> 0, model_calls |-> 0, dispatched |-> {}, pending_at_crash |-> <<>>,
           crashed |-> FALSE, overflow |-> FALSE, binds |-> 0]

(***************************************************************************)
(* Initial states                                                          *)
(***************************************************************************)
InitIdle ==
    /\ node = "idle"
    /\ caller = "none"
    /\ session_id = 0
    /\ messages = <<>>
    /\ tool_outputs = <<>>
    /\ current_tool_index = -1
    /\ tool_output = None
    /\ tools_bound = FALSE
    /\ steps = 0
    /\ sd = SdIdle
    /\ engine \in {"graph", "deepsense"}
    /\ chat_messages = <<>>
    /\ agent_states_cache = <<>>
    /\ result = NoResult
    /\ response = NoResponse
    /\ next_call_id = 1
    /\ finish_order = <<>>
    /\ turn_log = NewLog
    /\ sessions_collection = <<>>
    /\ checkpoints = <<>>
    /\ store_calls = 0
    /\ last_call = NoCall
    /\ workflow = WorkflowIdle

NoBudget == [calls |-> 0, total |-> 0, oversize |-> 0, faults |-> 0, long |-> 0,
             crashes |-> 0, queries |-> 0, reruns |-> 0]

InitCommon ==
    /\ InitIdle
    /\ unit = NoUnit
    /\ chat_sessions = {}
    /\ procs = <<>>

\* a turn of several dispatches; the model calls inside the engine answer briefly
\* or let their exception escape
Init ==
    /\ InitCommon
    /\ env = [calls |-> MaxCallsPerMsg, total |-> MaxCalls, oversize |-> MaxOversize,
              faults |-> 0, long |-> 0, crashes |-> 0, queries |-> 1, reruns |-> 0]


(***************************************************************************)
(* api/main.py: the session cache and the end of process_user_query        *)
(***************************************************************************)
CacheHas(cache, sid) == \E i \in 1..Len(cache) : cache[i].sid = sid

CacheGet(cache, sid) == cache[CHOOSE i \in 1..Len(cache) : cache[i].sid = sid].value

\* agent_states_cache[session_id] = result: an existing key keeps its place
CachePut(cache, sid, value) ==
    IF CacheHas(cache, sid)
    THEN [i \in 1..Len(cache) |->
            IF cache[i].sid = sid THEN [sid |-> sid, value |-> value] ELSE cache[i]]
    ELSE Append(cache, [sid |-> sid, value |-> value])

\* agent_states_cache.move_to_end(session_id)
move_to_end(cache, sid) ==
    SelectSeq(cache, LAMBDA e : e.sid # sid) \o SelectSeq(cache, LAMBDA e : e.sid = sid)

\* popitem(last=True): the entry written last is the one dropped
manage_cache_size_newest(cache) ==
    IF Len(cache) > MAX_CACHE_SIZE THEN SubSeq(cache, 1, MAX_CACHE_SIZE) ELSE cache

\* while len(agent_states_cache) > MAX_CACHE_SIZE: popitem(last=False)
RECURSIVE manage_cache_size(_)
manage_cache_size(cache) ==
    IF Len(cache) > MAX_CACHE_SIZE THEN manage_cache_size(Tail(cache)) ELSE cache

\* process_user_query after run_planner_react_agent returned r: the handler returns a
\* QueryResponse on both paths (the except branch included), which is answered with 200
QueryResponse(r, sid) ==
    IF r.kind = "state"
    THEN [session_id |-> sid, response |-> r.messages[Len(r.messages)].content.kind,
          success |-> TRUE, error |-> "none", status_code |-> 200]
    ELSE [session_id |-> sid, response |-> "", success |-> FALSE,
          error |-> "AttributeError", status_code |-> 200]

\* run_planner_react_agent returns r to its caller, which finishes its own work
Return(r) ==
    /\ result' = r
    /\ node' = "idle"
    /\ caller' = "none"
    /\ IF caller = "api"
       THEN /\ agent_states_cache' = manage_cache_size(CachePut(agent_states_cache, session_id, r))
            /\ response' = QueryResponse(r, session_id)
       ELSE UNCHANGED <<agent_states_cache, response>>

\* an exception inside app.invoke: run_planner_react_agent returns "Error:"
Raise ==
    /\ Return(ErrorValue)
    /\ sd' = SdIdle

\* run_planner_react_agent: the initial state handed to app.invoke
RunAgent(sid, existing_messages, who) ==
    /\ session_id' = sid
    /\ messages' = IF existing_messages # <<>>
                   THEN <<SystemMessage>> \o existing_messages \o <<HumanMessage>>
                   ELSE <<SystemMessage, HumanMessage>>
    /\ tool_output' = EmptyList
    /\ tool_outputs' = <<>>
    /\ current_tool_index' = -1
    /\ tools_bound' = FALSE
    /\ steps' = 0
    /\ sd' = SdIdle
    /\ caller' = who
    /\ node' = "tool_selection"
    /\ result' = NoResult
    /\ finish_order' = <<>>

\* POST /query without a session id
process_user_query_new ==
    /\ node = "idle"
    /\ env.queries > 0
    /\ LET sid == Cardinality(chat_sessions) + 1
           existing_messages == IF CacheHas(agent_states_cache, sid)
                                THEN CacheGet(agent_states_cache, sid).messages
                                ELSE LoadHistory(chat_messages, sid)
       IN  /\ chat_sessions' = chat_sessions \cup {sid}
           /\ chat_messages' = save_message(chat_messages, sid, "HumanMessage",
                                            HumanMessage.content, 0, FALSE)
           /\ agent_states_cache' = IF CacheHas(agent_states_cache, sid)
                                    THEN move_to_end(agent_states_cache, sid)
                                    ELSE agent_states_cache
           /\ RunAgent(sid, existing_messages, "api")
    /\ env' = [env EXCEPT !.queries = @ - 1]
    /\ turn_log' = [NewLog EXCEPT !.turns = 1]
    /\ UNCHANGED <<engine, response, next_call_id>>
    /\ UNCHANGED ext

(***************************************************************************)
(* graph/planner_react_agent.py: the nodes of the agent loop               *)
(***************************************************************************)
Running(n) == node = n /\ steps < RecursionLimit

tool_selection_node ==
    /\ Running("tool_selection")
    /\ steps' = steps + 1
    /\ tools_bound' = TRUE
    /\ node' = "model"
    /\ turn_log' = [turn_log EXCEPT !.binds = @ + 1]
    /\ UNCHANGED <<caller, session_id, messages, tool_outputs, current_tool_index,
                   tool_output, sd, engine, chat_sessions, chat_messages,
                   agent_states_cache, result, response, next_call_id, finish_order,
                   env>>
    /\ UNCHANGED ext

\* the numbers of tool calls the planner model may put on its next response
CallCounts == 0..(IF env.total < env.calls THEN env.total ELSE env.calls)

model_node ==
    /\ Running("model")
    /\ \E k \in CallCounts :
        LET calls == [i \in 1..k |-> [id |-> next_call_id + i - 1]]
            resp == AIMessage(calls)
        IN  /\ messages' = Append(messages, resp)
            /\ chat_messages' = save_message(chat_messages, session_id, "AIMessage",
                                             resp.content, 0, FALSE)
            /\ next_call_id' = next_call_id + k
            /\ env' = [env EXCEPT !.total = @ - k]
    /\ steps' = steps + 1
    /\ node' = "router"
    /\ turn_log' = [turn_log EXCEPT !.model_calls = @ + 1]
    /\ UNCHANGED <<caller, session_id, tool_outputs, current_tool_index, tool_output,
                   tools_bound, sd, engine, chat_sessions, agent_states_cache, result,
                   response, finish_order>>
    /\ UNCHANGED ext

\* bound_model.invoke raises (transport error, timeout)
model_node_raises ==
    /\ Running("model")
    /\ Raise
    /\ UNCHANGED <<session_id, messages, tool_outputs, current_tool_index, tool_output,
                   tools_bound, steps, engine, chat_sessions, chat_messages,
                   next_call_id, finish_order, turn_log, env>>
    /\ UNCHANGED ext

\* variant: any message with tool calls sends the loop to the tools
edge_router_any(msgs) ==
    IF \E i \in 1..Len(msgs) : msgs[i].tool_calls # <<>> THEN "tools" ELSE "end"

edge_router(msgs) ==
    IF msgs[Len(msgs)].tool_calls # <<>> THEN "tools" ELSE "end"

router ==
    /\ Running("router")
    /\ steps' = steps + 1
    /\ IF edge_router(messages) = "tools"
       THEN /\ node' = "tools"
            /\ UNCHANGED <<caller, agent_states_cache, result, response>>
       ELSE Return(StateValue(messages))
    /\ UNCHANGED <<session_id, messages, tool_outputs, current_tool_index, tool_output,
                   tools_bound, sd, engine, chat_sessions, chat_messages, next_call_id,
                   finish_order, turn_log, env>>
    /\ UNCHANGED ext

Perms(n) == {p \in [1..n -> 1..n] : \A i, j \in 1..n : i # j => p[i] # p[j]}

\* how many of these raw results are over the threshold
Oversize(raws) ==
    Cardinality({i \in DOMAIN raws : estimate_token_count(TextLen(raws[i])) > Threshold})

\* variant: the results are collected as the tools finish
ToolNodeResultsAsCompleted(calls, raws, order) ==
    [i \in 1..Len(calls) |-> ToolMessage(Raw(raws[order[i]]), calls[order[i]].id)]

\* ToolNode runs the calls in parallel and returns the results in call order
ToolNodeResults(calls, raws, order) ==
    [i \in 1..Len(calls) |-> ToolMessage(Raw(raws[i]), calls[i].id)]

tool_node_wrapper ==
    /\ Running("tools")
    /\ LET calls == messages[Len(messages)].tool_calls
       IN  \E raws \in [1..Len(calls) -> RawResults], order \in Perms(Len(calls)) :
              /\ Oversize(raws) <= env.oversize
              /\ env' = [env EXCEPT !.oversize = @ - Oversize(raws)]
              /\ tool_outputs' = ToolNodeResults(calls, raws, order)
              /\ finish_order' = [i \in 1..Len(calls) |-> calls[order[i]].id]
              /\ turn_log' = [turn_log EXCEPT !.dispatched =
                                 @ \cup {calls[i].id : i \in 1..Len(calls)}]
    /\ current_tool_index' = -1
    /\ steps' = steps + 1
    /\ node' = "select_tool_output"
    /\ UNCHANGED <<caller, session_id, messages, tool_output, tools_bound, sd, engine,
                   chat_sessions, chat_messages, agent_states_cache, result, response,
                   next_call_id>>
    /\ UNCHANGED ext

\* variant: the comparison with the threshold is not strict
process_tool_output_ge(output) ==
    IF output = None THEN "model"
    ELSE IF estimate_token_count(output.content.len) >= Threshold THEN "discover_schema"
    ELSE "add_tool_messages"

\* the conditional edge after select_tool_output
process_tool_output(output) ==
    IF output = None THEN "model"
    ELSE IF estimate_token_count(output.content.len) > Threshold THEN "discover_schema"
    ELSE "add_tool_messages"

\* variant: the bound test is off by one and the last output is never selected
SelectOutputSkipsLast(outputs, index) ==
    IF Len(outputs) # 0 /\ Len(outputs) > index + 1 THEN outputs[index + 1] ELSE None

\* tool_outputs[current_tool_index] (0-based) when there is one
SelectOutput(outputs, index) ==
    IF Len(outputs) # 0 /\ Len(outputs) > index THEN outputs[index + 1] ELSE None

select_tool_output ==
    /\ Running("select_tool_output")
    /\ LET index == current_tool_index + 1
           output == SelectOutput(tool_outputs, index)
       IN  /\ tool_output' = output
           /\ current_tool_index' = index
           /\ node' = process_tool_output(output)
    /\ steps' = steps + 1
    /\ UNCHANGED <<caller, session_id, messages, tool_outputs, tools_bound, sd, engine,
                   chat_sessions, chat_messages, agent_states_cache, result, response,
                   next_call_id, finish_order, turn_log, env>>
    /\ UNCHANGED ext

add_tool_messages_node ==
    /\ Running("add_tool_messages")
    /\ IF tool_output \in {None, EmptyList}
       THEN UNCHANGED <<messages, tool_output, chat_messages>>
       ELSE /\ chat_messages' = save_message(chat_messages, session_id, "ToolMessage",
                                             tool_output.content, tool_output.tool_call_id,
                                             FALSE)
            /\ messages' = Append(messages, tool_output)
            /\ tool_output' = None
    /\ steps' = steps + 1
    /\ node' = "select_tool_output"
    /\ UNCHANGED <<caller, session_id, tool_outputs, current_tool_index, tools_bound, sd,
                   engine, chat_sessions, agent_states_cache, result, response,
                   next_call_id, finish_order, turn_log, env>>
    /\ UNCHANGED ext


(***************************************************************************)
(* The compaction sub-engine: graph/summarizer_graph.py (engine = "graph") *)
(* and deepsense/summarizer_graph.py (engine = "deepsense")                *)
(***************************************************************************)
Modes == {"schema", "summarize"}

InEngine(n) == node = "discover_schema" /\ sd.node = n

\* schema_subgraph.invoke(schema_state) sets no recursion limit of its own: the run is
\* under the limit of the run that invokes it, or under a smaller default
SubgraphRecursionLimit == RecursionLimit

\* a node of the sub-engine is due and the supersteps of its run are not used up
EngineRunning(n) == InEngine(n) /\ sd.steps < SubgraphRecursionLimit

EngineUnchanged ==
    UNCHANGED <<node, caller, session_id, messages, tool_outputs, current_tool_index,
                tool_output, tools_bound, steps, engine, chat_sessions, chat_messages,
                agent_states_cache, result, response, next_call_id, finish_order,
                turn_log>>

\* the lengths a model call inside the engine may return, and what is left after it
LlmLens == IF env.long > 0 THEN {ShortLen, LongLen} ELSE {ShortLen}
AfterLen(len) == [env EXCEPT !.long = IF len = LongLen THEN @ - 1 ELSE @]
AfterFault == [env EXCEPT !.faults = @ - 1]

\* an exception inside the engine leaves the node, the graph and the turn
EngineRaises ==
    /\ Raise
    /\ UNCHANGED <<session_id, messages, tool_outputs, current_tool_index, tool_output,
                   tools_bound, steps, engine, chat_sessions, chat_messages,
                   next_call_id, finish_order, turn_log, env>>

\* agent_state.get("latest_ai_message"): no node writes the key, and AgentState does
\* not declare it
LatestAiMessage == None

\* the reason argument of the tool call of latest_ai_message whose id is that of the
\* tool output ("absent": args has no reason), "" when there is none
get_latest_ai_message_context(latest_ai_message, output) ==
    IF latest_ai_message = None \/ output = None THEN ""
    ELSE IF \E i \in 1..Len(latest_ai_message.tool_calls) :
                /\ latest_ai_message.tool_calls[i].id = output.tool_call_id
                /\ latest_ai_message.tool_calls[i].reason # "absent"
    THEN (CHOOSE c \in {latest_ai_message.tool_calls[i] :
                            i \in 1..Len(latest_ai_message.tool_calls)} :
                c.id = output.tool_call_id).reason
    ELSE ""

\* schema_discovery_wrapper up to schema_subgraph.invoke
schema_discovery_wrapper_begin ==
    /\ Running("discover_schema")
    /\ sd.node = "idle"
    /\ steps' = steps + 1
    /\ sd' = [SdIdle EXCEPT
                !.node = "decide_mode",
                !.ai_message_context =
                    get_latest_ai_message_context(LatestAiMessage, tool_output),
                !.pending_chunks =
                    chunk_data_by_tokens(tool_output.content.lines,
                        IF engine = "graph" THEN GraphMaxTokens ELSE DeepsenseMaxTokens)]
    /\ UNCHANGED <<node, caller, session_id, messages, tool_outputs, current_tool_index,
                   tool_output, tools_bound, engine, chat_sessions, chat_messages,
                   agent_states_cache, result, response, next_call_id, finish_order,
                   turn_log, env>>
    /\ UNCHANGED ext

decide_processing_mode ==
    /\ EngineRunning("decide_mode")
    /\ \E mode \in Modes :
        sd' = [sd EXCEPT !.processing_mode = mode, !.node = "next_chunk", !.steps = @ + 1]
    /\ EngineUnchanged
    /\ UNCHANGED env
    /\ UNCHANGED ext

decide_processing_mode_raises ==
    /\ EngineRunning("decide_mode")
    /\ EngineRaises
    /\ UNCHANGED ext

\* pending_chunks[i:i + 8] for i in range(0, len(pending_chunks), 8)
Batches(chunks) ==
    [b \in 1..((Len(chunks) + BatchSize - 1) \div BatchSize) |->
        SubSeq(chunks, (b - 1) * BatchSize + 1,
               IF b * BatchSize < Len(chunks) THEN b * BatchSize ELSE Len(chunks))]

next_chunk ==
    /\ EngineRunning("next_chunk")
    /\ sd' = IF sd.pending_chunks = <<>>
             THEN [sd EXCEPT !.node = "llm_schema", !.steps = @ + 1]
             ELSE IF engine = "deepsense" /\ sd.processing_mode = "summarize"
             THEN [sd EXCEPT !.parallel_chunks = Batches(sd.pending_chunks),
                             !.pending_chunks = <<>>,
                             !.node = "llm_schema", !.steps = @ + 1]
             ELSE [sd EXCEPT !.current_chunk = Head(sd.pending_chunks).pos,
                             !.pending_chunks = Tail(sd.pending_chunks),
                             !.node = "llm_schema", !.steps = @ + 1]
    /\ EngineUnchanged
    /\ UNCHANGED env
    /\ UNCHANGED ext

\* variant: the loop of the schema mode ends when count reaches the limit
check_done_at_limit(state) ==
    IF state.processing_mode = "schema"
    THEN IF state.pending_chunks = <<>> \/ state.count >= SchemaIterationLimit
         THEN "merge" ELSE "next_chunk"
    ELSE IF state.pending_chunks = <<>> THEN "merge" ELSE "next_chunk"

check_done(state) ==
    IF state.processing_mode = "schema"
    THEN IF state.pending_chunks = <<>> \/ state.count > SchemaIterationLimit
         THEN "merge" ELSE "next_chunk"
    ELSE IF state.pending_chunks = <<>> THEN "merge" ELSE "next_chunk"

\* the end of schema_from_chunks (count += 1, one more superstep) and the edge after it
AfterChunk(state) ==
    LET counted == [state EXCEPT !.count = @ + 1, !.steps = @ + 1]
    IN  [counted EXCEPT !.node = check_done(counted)]

Last(s) == s[Len(s)]

\* schema branch: llm_chain.invoke on the current chunk and the previous schema
schema_from_chunks_schema ==
    /\ EngineRunning("llm_schema")
    /\ sd.processing_mode = "schema"
    /\ \E len \in LlmLens :
        LET prev == IF sd.partial_schemas = <<>> THEN 0 ELSE Last(sd.partial_schemas).chunk
            schema == [len |-> len, chunk |-> sd.current_chunk, previous |-> prev]
        IN  /\ sd' = AfterChunk([sd EXCEPT !.partial_schemas = Append(@, schema)])
            /\ env' = AfterLen(len)
    /\ EngineUnchanged
    /\ UNCHANGED ext

schema_from_chunks_raises ==
    /\ EngineRunning("llm_schema")
    /\ sd.processing_mode = "schema"
    /\ EngineRaises
    /\ UNCHANGED ext

\* graph engine, summarize branch: one chunk, a fallback summary when the chain raises
schema_from_chunks_summarize ==
    /\ EngineRunning("llm_schema")
    /\ sd.processing_mode # "schema"
    /\ engine = "graph"
    /\ \/ \E len \in LlmLens :
              /\ sd' = AfterChunk([sd EXCEPT !.summaries =
                        Append(@, [kind |-> "summary", len |-> len, of |-> sd.current_chunk])])
              /\ env' = AfterLen(len)
       \/ /\ env.faults > 0
          /\ sd' = AfterChunk([sd EXCEPT !.summaries =
                        Append(@, [kind |-> "chunk_error", len |-> ShortLen,
                                   of |-> sd.current_chunk])])
          /\ env' = AfterFault
    /\ EngineUnchanged
    /\ UNCHANGED ext

\* the summaries collected from the futures, in completion order, up to the first
\* future whose result() raises
RECURSIVE Collected(_, _)
Collected(order, outcome) ==
    IF order = <<>> \/ outcome[Head(order)] = "map_raises" THEN <<>>
    ELSE <<[kind |-> IF outcome[Head(order)] = "ok" THEN "summary" ELSE "merge_error",
            len |-> ShortLen, of |-> Head(order)]>>
         \o Collected(Tail(order), outcome)

\* deepsense engine, summarize branch: the batches run in parallel
schema_from_chunks_parallel ==
    /\ EngineRunning("llm_schema")
    /\ sd.processing_mode # "schema"
    /\ engine = "deepsense"
    /\ LET n == Len(sd.parallel_chunks)
           Faults(outcome) == Cardinality({b \in 1..n : outcome[b] # "ok"})
       IN  \E order \in Perms(n), outcome \in [1..n -> {"ok", "merge_raises", "map_raises"}] :
              /\ Faults(outcome) <= env.faults
              /\ env' = [env EXCEPT !.faults = @ - Faults(outcome)]
              /\ sd' = AfterChunk([sd EXCEPT !.summaries = @ \o Collected(order, outcome)])
    /\ EngineUnchanged
    /\ UNCHANGED ext

merge_and_emit_tool_message ==
    /\ EngineRunning("merge")
    /\ IF sd.processing_mode = "schema"
       THEN /\ sd' = [sd EXCEPT !.final_schema = Last(sd.partial_schemas).len,
                                !.node = "emit", !.steps = @ + 1]
            /\ UNCHANGED env
       ELSE IF sd.summaries = <<>>
       THEN /\ sd' = [sd EXCEPT !.final_summary = Content("no_summary", 20, <<>>, "absent"),
                                !.node = "emit", !.steps = @ + 1]
            /\ UNCHANGED env
       ELSE IF engine = "graph"
       THEN /\ sd' = [sd EXCEPT !.final_summary =
                                    Content(Last(sd.summaries).kind, Last(sd.summaries).len,
                                            <<>>, "absent"),
                                !.node = "emit", !.steps = @ + 1]
            /\ UNCHANGED env
       ELSE \/ \E len \in LlmLens :
                  /\ sd' = [sd EXCEPT !.final_summary = Content("summary", len, <<>>, "absent"),
                                      !.node = "emit", !.steps = @ + 1]
                  /\ env' = AfterLen(len)
            \/ /\ env.faults > 0
               /\ sd' = [sd EXCEPT !.final_summary =
                                       Content("merge_error", ShortLen, <<>>, "absent"),
                                   !.node = "emit", !.steps = @ + 1]
               /\ env' = AfterFault
    /\ EngineUnchanged
    /\ UNCHANGED ext

\* upload_json_to_s3 returns a dict with https_url, or a dict without it when the
\* upload failed (result["data_uri"] = None); it raises nothing
UploadResults == {"https", "null"}

\* the content of the synthetic Tool message
SyntheticContent(state, uri) ==
    IF state.processing_mode = "schema"
    THEN Content("schema", state.final_schema + 34 + (IF uri = "https" THEN 80 ELSE 4),
                 <<>>, uri)
    ELSE IF engine = "graph"
    THEN Content(state.final_summary.kind, state.final_summary.len + 52, <<>>, "absent")
    ELSE state.final_summary

\* variant: the wrapper hands the triggering message back
SyntheticMessagePassThrough(state, uri, output) == output

\* ToolMessage(tool_call_id=agent_state['tool_output'].tool_call_id, content=json_result)
SyntheticMessage(state, uri, output) ==
    ToolMessage(SyntheticContent(state, uri), output.tool_call_id)

\* schema_discovery_wrapper after schema_subgraph.invoke
schema_discovery_wrapper_end ==
    /\ InEngine("emit")
    /\ \E uri \in IF sd.processing_mode = "schema" THEN UploadResults ELSE {"absent"} :
        LET tool_msg == SyntheticMessage(sd, uri, tool_output)
        IN  /\ messages' = Append(messages, tool_msg)
            /\ chat_messages' =
                  IF engine = "graph"
                  THEN save_message(chat_messages, session_id, "ToolMessage",
                                    tool_msg.content, tool_msg.tool_call_id, TRUE)
                  ELSE chat_messages
    /\ tool_output' = None
    /\ sd' = SdIdle
    /\ node' = "select_tool_output"
    /\ UNCHANGED <<caller, session_id, tool_outputs, current_tool_index, tools_bound,
                   steps, engine, chat_sessions, agent_states_cache, result, response,
                   next_call_id, finish_order, turn_log, env>>
    /\ UNCHANGED ext

(***************************************************************************)
(* The recursion limit of app.invoke                                       *)
(***************************************************************************)
\* GraphRecursionError: a node is due after RecursionLimit supersteps
recursion_limit_reached ==
    /\ node \notin {"idle"}
    /\ sd.node = "idle"
    /\ steps >= RecursionLimit
    /\ Raise
    /\ turn_log' = [turn_log EXCEPT !.overflow = TRUE]
    /\ UNCHANGED <<session_id, messages, tool_outputs, current_tool_index, tool_output,
                   tools_bound, steps, engine, chat_sessions, chat_messages,
                   next_call_id, finish_order, env>>
    /\ UNCHANGED ext

(***************************************************************************)
(* A process that dies in the middle of a turn, and what follows           *)
(***************************************************************************)
Answered(msgs, id) ==
    \E j \in 1..Len(msgs) : msgs[j].type = "tool" /\ msgs[j].tool_call_id = id

\* the outputs of the last dispatch that are not yet in messages
PendingOutputs ==
    SelectSeq(tool_outputs, LAMBDA o : ~Answered(messages, o.tool_call_id))

\* the process exits: what it held in memory is gone, the database stays
crash ==
    /\ node # "idle"
    /\ env.crashes > 0
    /\ env' = [env EXCEPT !.crashes = @ - 1]
    /\ turn_log' = [turn_log EXCEPT !.crashed = TRUE, !.pending_at_crash = PendingOutputs]
    /\ node' = "idle"
    /\ caller' = "none"
    /\ session_id' = 0
    /\ messages' = <<>>
    /\ tool_outputs' = <<>>
    /\ current_tool_index' = -1
    /\ tool_output' = None
    /\ tools_bound' = FALSE
    /\ steps' = 0
    /\ sd' = SdIdle
    /\ agent_states_cache' = <<>>
    /\ result' = NoResult
    /\ response' = NoResponse
    /\ finish_order' = <<>>
    /\ UNCHANGED <<engine, chat_sessions, chat_messages, next_call_id>>
    /\ UNCHANGED ext

\* POST /query with a session id: create_session(user_id, session_id=...) is a
\* TypeError (utils/db_utils.create_session takes user_id only), caught by the handler
process_user_query_existing ==
    /\ node = "idle"
    /\ \E sid \in chat_sessions :
        response' = [session_id |-> sid, response |-> "", success |-> FALSE,
                     error |-> "TypeError", status_code |-> 200]
    /\ UNCHANGED <<node, caller, session_id, messages, tool_outputs, current_tool_index,
                   tool_output, tools_bound, steps, sd, engine, chat_sessions,
                   chat_messages, agent_states_cache, result, next_call_id, finish_order,
                   turn_log, env>>
    /\ UNCHANGED ext

\* test_workflow.py: save the query, then run_planner_react_agent(query, session_id),
\* here for a session that exists
script_run ==
    /\ node = "idle"
    /\ env.reruns > 0
    /\ \E sid \in chat_sessions :
        /\ chat_messages' = save_message(chat_messages, sid, "HumanMessage",
                                         HumanMessage.content, 0, FALSE)
        /\ RunAgent(sid, <<>>, "script")
    /\ env' = [env EXCEPT !.reruns = @ - 1]
    /\ turn_log' = [turn_log EXCEPT !.model_calls = 0, !.turns = @ + 1]
    /\ UNCHANGED <<engine, chat_sessions, agent_states_cache, response, next_call_id>>
    /\ UNCHANGED ext

(***************************************************************************)
(* Specifications                                                          *)
(***************************************************************************)
LoopNext ==
    \/ tool_selection_node
    \/ model_node
    \/ model_node_raises
    \/ router
    \/ tool_node_wrapper
    \/ select_tool_output
    \/ add_tool_messages_node

EngineNext ==
    \/ schema_discovery_wrapper_begin
    \/ decide_processing_mode
    \/ decide_processing_mode_raises
    \/ next_chunk
    \/ schema_from_chunks_schema
    \/ schema_from_chunks_raises
    \/ schema_from_chunks_summarize
    \/ schema_from_chunks_parallel
    \/ merge_and_emit_tool_message
    \/ schema_discovery_wrapper_end

Next == process_user_query_new \/ LoopNext \/ EngineNext

Spec == Init /\ [][Next]_vars

\* a turn whose tool results may all be over the threshold, and in which the model
\* calls inside the engine may also return a long text or raise an exception that
\* the engine catches
InitEngine ==
    /\ InitCommon
    /\ env = [calls |-> MaxOversize, total |-> MaxOversize, oversize |-> MaxOversize,
              faults |-> MaxFaults, long |-> MaxLong, crashes |-> 0, queries |-> 1,
              reruns |-> 0]

SpecEngine == InitEngine /\ [][Next]_vars

\* a planner that keeps calling one tool, whose results stay under the threshold
InitBudget ==
    /\ InitCommon
    /\ env = [calls |-> 1, total |-> RecursionLimit, oversize |-> 0, faults |-> 0,
              long |-> 0, crashes |-> 0, queries |-> 1, reruns |-> 0]

NextBudget == process_user_query_new \/ LoopNext \/ recursion_limit_reached

SpecBudget == InitBudget /\ [][NextBudget]_vars

\* one turn that may be cut by the death of the process, and the next invocation
InitResume ==
    /\ InitCommon
    /\ env = [calls |-> MaxCallsPerMsg, total |-> MaxCallsPerMsg, oversize |-> 0,
              faults |-> 0, long |-> 0, crashes |-> 1, queries |-> 1, reruns |-> MaxReruns]

NextResume ==
    process_user_query_new \/ LoopNext \/ crash \/ process_user_query_existing \/ script_run

SpecResume == InitResume /\ [][NextResume]_vars

\* a session that is used for more than one turn
InitSession ==
    /\ InitCommon
    /\ env = [calls |-> MaxCallsPerMsg, total |-> MaxCalls, oversize |-> 0, faults |-> 0,
              long |-> 0, crashes |-> 0, queries |-> 1, reruns |-> MaxReruns]

NextSession == process_user_query_new \/ LoopNext \/ process_user_query_existing \/ script_run

SpecSession == InitSession /\ [][NextSession]_vars


(***************************************************************************)
(* Concurrent turns on one session: the statements of save_message         *)
(***************************************************************************)
\* the messages one turn stores, in order: the query (test_workflow.py), the
\* assistant message with a tool call (model_node), the tool result
\* (add_tool_messages_node), the final assistant message (model_node)
TurnRows == <<"HumanMessage", "AIMessage", "ToolMessage", "AIMessage">>

Callers == 1..MaxCallers

\* SELECT COALESCE(MAX(sequence_order), 0) + 1 FROM chat_messages WHERE session_id = %s
NextSequenceOrder(rows, sid) ==
    LET seqs == {rows[i].sequence_order : i \in {j \in 1..Len(rows) : rows[j].session_id = sid}}
    IN  IF seqs = {} THEN 1 ELSE Max(seqs) + 1

\* UNIQUE(session_id, sequence_order)
UniqueViolation(rows, sid, seq) ==
    \E i \in 1..Len(rows) : rows[i].session_id = sid /\ rows[i].sequence_order = seq

\* a node of caller c produced its next message and save_message read the
\* next sequence order
save_message_select(c) ==
    /\ procs[c].pc = "select"
    /\ procs' = [procs EXCEPT ![c].pc = "insert",
                              ![c].seq = NextSequenceOrder(chat_messages, procs[c].sid)]
    /\ UNCHANGED <<loop_vars, store_vars, workflow, unit>>

\* INSERT INTO chat_messages ...; commit. A unique violation is raised, rolled back
\* and swallowed by the caller of save_message: the message is not stored
save_message_insert(c) ==
    /\ procs[c].pc = "insert"
    /\ LET me == procs[c]
           type == TurnRows[me.k]
           stored == ~UniqueViolation(chat_messages, me.sid, me.seq)
           after == IF me.k = Len(TurnRows) THEN "done" ELSE "select"
       IN  /\ chat_messages' =
                 IF stored
                 THEN Append(chat_messages,
                             Row(me.sid, type, Text(ShortLen),
                                 IF type = "ToolMessage" THEN c ELSE 0, FALSE, me.seq))
                 ELSE chat_messages
           /\ procs' = [procs EXCEPT ![c].pc = after,
                                     ![c].k = IF after = "done" THEN @ ELSE @ + 1,
                                     ![c].saved = IF stored
                                                  THEN Append(@, Len(chat_messages) + 1)
                                                  ELSE @]
    /\ UNCHANGED <<node, caller, session_id, messages, tool_outputs, current_tool_index,
                   tool_output, tools_bound, steps, sd, engine, chat_sessions,
                   agent_states_cache, result, response, next_call_id, finish_order,
                   turn_log, env>>
    /\ UNCHANGED <<store_vars, workflow, unit>>

\* run_planner_react_agent called by several processes with the id of one session
InitConcurrent ==
    /\ InitIdle
    /\ unit = NoUnit
    /\ chat_sessions = {1}
    /\ env = NoBudget
    /\ procs = [c \in Callers |-> [sid |-> 1, seq |-> 0, pc |-> "select", k |-> 1,
                                   saved |-> <<>>]]

NextConcurrent ==
    \/ \E c \in Callers : save_message_select(c)
    \/ \E c \in Callers : save_message_insert(c)

SpecConcurrent == InitConcurrent /\ [][NextConcurrent]_vars

(***************************************************************************)
(* deepsense/checkpointer.py: MongoDBCheckpointer.create_session, its      *)
(* statements interleaved between concurrent callers                       *)
(***************************************************************************)
SessionIds == 1..MaxSessionIds

\* str(uuid.uuid4()) in the k-th call: distinct from every id that is supplied and
\* from every other generated id
uuid4(k) == MaxSessionIds + k

SessionDoc(sid, uid) == [session_id |-> sid, user_id |-> uid, status |-> "active"]

\* sessions_collection.find_one({"session_id": sid}) is not None
find_one(docs, sid) == \E i \in 1..Len(docs) : docs[i].session_id = sid

\* a collection without create_index("session_id", unique=True)
DuplicateKeyNoIndex(docs, sid) == FALSE

\* create_index("session_id", unique=True): insert_one raises E11000 duplicate key
DuplicateKey(docs, sid) == \E i \in 1..Len(docs) : docs[i].session_id = sid

\* insert_one inside the try of create_session: a duplicate-key error is logged and
\* dropped, the collection is left as it was
insert_one(docs, doc) ==
    IF DuplicateKey(docs, doc.session_id) THEN docs ELSE Append(docs, doc)

CreateIdle == [session_id |-> 0, ret |-> 0, removed |-> 0, pc |-> "idle",
               outcome |-> "none", user_id |-> 0, given |-> FALSE]

\* create_session(user_id, session_id) with a session id, each caller under its own
\* user id: find_one, and the return when the session exists
checkpointer_create_session_find(c) ==
    /\ procs[c].pc = "idle"
    /\ store_calls < MaxStoreCalls
    /\ store_calls' = store_calls + 1
    /\ \E sid \in SessionIds :
         /\ procs' = [procs EXCEPT ![c] =
                     IF find_one(sessions_collection, sid)
                     THEN [session_id |-> sid, ret |-> sid, removed |-> 0, pc |-> "idle",
                           outcome |-> "found", user_id |-> c, given |-> TRUE]
                     ELSE [session_id |-> sid, ret |-> 0, removed |-> 0,
                           pc |-> "insert_one", outcome |-> "none", user_id |-> c,
                           given |-> TRUE]]
         /\ last_call' = Call("create_session", sid,
                               IF find_one(sessions_collection, sid) THEN "id" ELSE "none", 0)
    /\ UNCHANGED <<sessions_collection, checkpoints>>
    /\ UNCHANGED <<loop_vars, workflow, unit>>

\* create_session after find_one found nothing: insert_one and the return
checkpointer_create_session_insert(c) ==
    /\ procs[c].pc = "insert_one"
    /\ LET me == procs[c]
           doc == SessionDoc(me.session_id, me.user_id)
       IN  /\ sessions_collection' = insert_one(sessions_collection, doc)
           /\ procs' = [procs EXCEPT ![c].pc = "idle", ![c].ret = me.session_id,
                                     ![c].outcome =
                                        IF DuplicateKey(sessions_collection, me.session_id)
                                        THEN "duplicate" ELSE "inserted"]
           /\ last_call' = Call("create_session", me.session_id, "id", 0)
    /\ UNCHANGED <<checkpoints, store_calls>>
    /\ UNCHANGED <<loop_vars, workflow, unit>>

\* create_session(user_id) without a session id: uuid4, insert_one and the return
checkpointer_create_session_new(c) ==
    /\ procs[c].pc = "idle"
    /\ store_calls < MaxStoreCalls
    /\ store_calls' = store_calls + 1
    /\ LET sid == uuid4(store_calls + 1)
           uid == c
       IN    /\ sessions_collection' = insert_one(sessions_collection, SessionDoc(sid, uid))
             /\ procs' = [procs EXCEPT ![c] =
                            [session_id |-> sid, ret |-> sid, removed |-> 0, pc |-> "idle",
                             outcome |-> IF DuplicateKey(sessions_collection, sid)
                                         THEN "duplicate" ELSE "inserted",
                             user_id |-> uid, given |-> FALSE]]
             /\ last_call' = Call("create_session", 0, "id", 0)
    /\ UNCHANGED checkpoints
    /\ UNCHANGED <<loop_vars, workflow, unit>>

InitCreate ==
    /\ InitIdle
    /\ unit = NoUnit
    /\ chat_sessions = {}
    /\ env = NoBudget
    /\ procs = [c \in Callers |-> CreateIdle]

NextCreate ==
    \/ \E c \in Callers : checkpointer_create_session_find(c)
    \/ \E c \in Callers : checkpointer_create_session_insert(c)
    \/ \E c \in Callers : checkpointer_create_session_new(c)

SpecCreate == InitCreate /\ [][NextCreate]_vars

(***************************************************************************)
(* Deleting a session: MongoDBCheckpointer.delete_session, and the DELETE  *)
(* /sessions/{id} handler of api/main.py over utils/db_utils.py            *)
(***************************************************************************)
\* the ids a caller may ask to delete: the supplied ones and a generated one
DeleteIds == SessionIds \cup {uuid4(1)}

\* invoke_workflow(query, session_id) in process_query of example/server.py, called
\* after create_session returned: the saver writes a checkpoint of the thread
workflow_invoke(c) ==
    /\ procs[c].pc = "idle"
    /\ procs[c].ret # 0
    /\ store_calls < MaxStoreCalls
    /\ store_calls' = store_calls + 1
    /\ checkpoints' = Append(checkpoints, [thread_id |-> procs[c].ret])
    /\ last_call' = Call("invoke_workflow", procs[c].ret, "none", 0)
    /\ UNCHANGED <<procs, sessions_collection>>
    /\ UNCHANGED <<loop_vars, workflow, unit>>

\* MongoDBCheckpointer.delete_session: delete_one on the sessions, delete_many on
\* the checkpoints of the thread, and deleted_count > 0
checkpointer_delete_session(c) ==
    /\ procs[c].pc = "idle"
    /\ store_calls < MaxStoreCalls
    /\ store_calls' = store_calls + 1
    /\ \E sid \in DeleteIds :
         /\ sessions_collection' =
                SelectSeq(sessions_collection, LAMBDA d : d.session_id # sid)
         /\ checkpoints' = SelectSeq(checkpoints, LAMBDA k : k.thread_id # sid)
         /\ procs' = [procs EXCEPT ![c] =
                        [session_id |-> sid, ret |-> 0,
                         removed |-> Len(SelectSeq(checkpoints, LAMBDA k : k.thread_id = sid)),
                         pc |-> "idle",
                         outcome |-> IF find_one(sessions_collection, sid)
                                     THEN "True" ELSE "False",
                         user_id |-> 0, given |-> TRUE]]
         /\ last_call' = Call("delete_session", sid,
                               IF find_one(sessions_collection, sid) THEN "True" ELSE "False",
                               Len(SelectSeq(checkpoints, LAMBDA k : k.thread_id = sid)))
    /\ UNCHANGED <<loop_vars, workflow, unit>>

\* chat_messages.session_id without ON DELETE CASCADE
delete_session_rows_kept(rows, sid) == rows

\* utils/db_utils.py: DELETE FROM chat_sessions WHERE session_id = %s, with the
\* ON DELETE CASCADE of chat_messages.session_id
delete_session_rows(rows, sid) == SelectSeq(rows, LAMBDA r : r.session_id # sid)

\* a handler that leaves the cache entry in place
CacheDelKept(cache, sid) == cache

\* del agent_states_cache[session_id]
CacheDel(cache, sid) == SelectSeq(cache, LAMBDA e : e.sid # sid)

\* DELETE /sessions/{session_id}
delete_session_endpoint ==
    /\ node = "idle"
    /\ \E sid \in DeleteIds :
         /\ agent_states_cache' = CacheDel(agent_states_cache, sid)
         /\ chat_sessions' = chat_sessions \ {sid}
         /\ chat_messages' = delete_session_rows(chat_messages, sid)
         /\ last_call' = Call("delete_session_endpoint", sid,
                               IF sid \in chat_sessions THEN "200" ELSE "404",
                               Len(chat_messages) - Len(delete_session_rows(chat_messages, sid)))
    /\ UNCHANGED <<node, caller, session_id, messages, tool_outputs, current_tool_index,
                   tool_output, tools_bound, steps, sd, engine, result, response,
                   next_call_id, finish_order, turn_log, env>>
    /\ UNCHANGED <<procs, sessions_collection, checkpoints, store_calls, workflow, unit>>

\* one turn through POST /query and one client of the checkpointer, with deletions;
\* the calls on the checkpointer are made between the steps of no turn
InitDelete ==
    /\ InitIdle
    /\ unit = NoUnit
    /\ chat_sessions = {}
    /\ env = [calls |-> MaxTurnCalls, total |-> MaxTurnCalls, oversize |-> 0, faults |-> 0,
              long |-> 0, crashes |-> 0, queries |-> 1, reruns |-> 0]
    /\ procs = <<CreateIdle>>

NextDelete ==
    \/ process_user_query_new
    \/ LoopNext
    \/ delete_session_endpoint
    \/ node = "idle" /\ \E c \in DOMAIN procs : checkpointer_create_session_find(c)
    \/ node = "idle" /\ \E c \in DOMAIN procs : checkpointer_create_session_insert(c)
    \/ node = "idle" /\ \E c \in DOMAIN procs : checkpointer_create_session_new(c)
    \/ node = "idle" /\ \E c \in DOMAIN procs : workflow_invoke(c)
    \/ node = "idle" /\ \E c \in DOMAIN procs : checkpointer_delete_session(c)

SpecDelete == InitDelete /\ [][NextDelete]_vars

\* a DELETE /sessions/{id} request for an existing session reaches the server, at
\* any moment, also while the handler of POST /query is running a turn on that id
delete_request_arrives ==
    /\ unit.fn = "none"
    /\ \E sid \in chat_sessions :
          unit' = [node |-> node, session_id |-> sid, fn |-> "delete_session_endpoint"]
    /\ UNCHANGED <<loop_vars, procs, store_vars, workflow>>

\* the event loop runs delete_session_endpoint for the request that arrived:
\* process_user_query and delete_session_endpoint are `async def` handlers without
\* an await, so the loop starts one only when the other has returned
delete_request_handled ==
    /\ node = "idle"
    /\ unit.fn = "delete_session_endpoint"
    /\ LET sid == unit.session_id
       IN  /\ agent_states_cache' = CacheDel(agent_states_cache, sid)
           /\ chat_sessions' = chat_sessions \ {sid}
           /\ chat_messages' = delete_session_rows(chat_messages, sid)
           /\ last_call' = Call("delete_session_endpoint", sid,
                                 IF sid \in chat_sessions THEN "200" ELSE "404",
                                 Len(chat_messages)
                                    - Len(delete_session_rows(chat_messages, sid)))
    /\ unit' = [unit EXCEPT !.fn = "done"]
    /\ UNCHANGED <<node, caller, session_id, messages, tool_outputs, current_tool_index,
                   tool_output, tools_bound, steps, sd, engine, result, response,
                   next_call_id, finish_order, turn_log, env>>
    /\ UNCHANGED <<procs, sessions_collection, checkpoints, store_calls, workflow>>

InitDeleteInFlight ==
    /\ InitIdle
    /\ unit = NoUnit
    /\ chat_sessions = {}
    /\ env = [calls |-> MaxTurnCalls, total |-> MaxTurnCalls, oversize |-> 0, faults |-> 0,
              long |-> 0, crashes |-> 0, queries |-> 1, reruns |-> 0]
    /\ procs = <<>>

NextDeleteInFlight ==
    \/ process_user_query_new
    \/ LoopNext
    \/ delete_request_arrives
    \/ delete_request_handled

SpecDeleteInFlight == InitDeleteInFlight /\ [][NextDeleteInFlight]_vars

(***************************************************************************)
(* deepsense/datasource.py: the user_action flag of the tools, and the     *)
(* turn of the workflow that process_query of example/server.py invokes    *)
(***************************************************************************)
\* what a datasource method returns: a dict (with or without a user_action key), a
\* list or a string
Results ==
    {[type |-> "dict", user_action |-> f] : f \in {"absent", "true", "false"}}
        \cup {[type |-> t, user_action |-> "absent"] : t \in {"list", "str"}}

\* the value a tool function holds before it is serialised. top: whose fields are at
\* the top level; data: what the data field of a wrapper holds
FromResult(r) ==
    [type |-> r.type, user_action |-> r.user_action, top |-> "result", data |-> "none"]

\* {"user_action": True, "data": ..., "timestamp": ..., "source": ...}
Wrapper(data) == [type |-> "dict", user_action |-> "true", top |-> "wrapper", data |-> data]

\* {"error": str(e), ...}
ErrorDict == [type |-> "dict", user_action |-> "absent", top |-> "error", data |-> "none"]

\* json.dumps(result, indent=2) if isinstance(result, (dict, list)) else str(result)
dumps_or_str(v) ==
    [user_action |-> v.user_action,
     format |-> IF v.type = "dict" THEN "json_object"
                ELSE IF v.type = "list" THEN "json_array" ELSE "str",
     top |-> v.top, data |-> v.data]

\* "Handle user_action flag" in simple_func and unified_func
HandleUserAction(r, user_action_flag) ==
    IF user_action_flag
    THEN IF r.type = "dict"
         THEN IF r.user_action = "absent"
              THEN [FromResult(r) EXCEPT !.user_action = "true"]
              ELSE FromResult(r)
         ELSE Wrapper("result")
    ELSE FromResult(r)

\* DataSource.get_tools: the function of a tool with a single method
simple_func(r, user_action_flag, raises) ==
    IF raises THEN dumps_or_str(ErrorDict)
    ELSE dumps_or_str(HandleUserAction(r, user_action_flag))

\* DataSource.get_tools: the function of a tool with several methods
unified_func(known, r, user_action_flag, raises) ==
    IF ~known THEN dumps_or_str(ErrorDict)
    ELSE IF raises THEN dumps_or_str(ErrorDict)
    ELSE dumps_or_str(HandleUserAction(r, user_action_flag))

\* DataSourceManager.create_tool_from_method
tool_func(r, use_user_action, raises) ==
    IF raises THEN dumps_or_str(ErrorDict)
    ELSE LET wrapped == IF use_user_action /\ r.type = "dict" /\ r.user_action # "true"
                        THEN Wrapper("result")
                        ELSE IF use_user_action /\ r.type # "dict"
                        THEN Wrapper("boxed")
                        ELSE FromResult(r)
         IN  dumps_or_str(wrapped)

\* the Tool content parses as a JSON object whose user_action field is true
IsUserAction(content) == content.format = "json_object" /\ content.user_action = "true"

\* fold_output: the payload goes to user_actions if the content carries the flag
Harvest(user_actions, message) ==
    IF IsUserAction(message.content) THEN Append(user_actions, message) ELSE user_actions

\* process_query: invoke_workflow is called; the state of the session is loaded
workflow_turn_begin ==
    /\ workflow.pc = "idle"
    /\ workflow.turns < MaxTurns
    /\ workflow' = [workflow EXCEPT !.pc = "loop", !.turns = @ + 1, !.pending = <<>>,
                                    !.tool_messages = <<>>,
                                    !.mark = Len(workflow.user_actions)]
    /\ UNCHANGED <<loop_vars, procs, store_vars, unit>>

\* dispatch_tools: a tool of the catalog was invoked; its content is collected as a
\* Tool message
Dispatch(out) ==
    /\ workflow.pc = "loop"
    /\ workflow.left > 0
    /\ workflow' = [workflow EXCEPT
                        !.left = @ - 1,
                        !.pending = Append(@, [content |-> out,
                                               id |-> MaxToolResults - workflow.left + 1])]
    /\ UNCHANGED <<loop_vars, procs, store_vars, unit>>

\* a tool of DataSource.get_tools with a single method is invoked
simple_tool_invoked ==
    \E r \in Results, flag \in BOOLEAN, raises \in BOOLEAN :
        Dispatch(simple_func(r, flag, raises))

\* a tool of DataSource.get_tools with several methods is invoked with an action
unified_tool_invoked ==
    \E r \in Results, flag \in BOOLEAN, raises \in BOOLEAN, known \in BOOLEAN :
        Dispatch(unified_func(known, r, flag, raises))

\* a tool of DataSourceManager.create_tool_from_method is invoked
manager_tool_invoked ==
    \E r \in Results, flag \in BOOLEAN, raises \in BOOLEAN :
        Dispatch(tool_func(r, flag, raises))

\* fold_output: the next pending Tool message is appended and harvested
fold_output ==
    /\ workflow.pc = "loop"
    /\ workflow.pending # <<>>
    /\ workflow' = [workflow EXCEPT
                        !.pending = Tail(@),
                        !.tool_messages = Append(@, Head(workflow.pending)),
                        !.user_actions = Harvest(@, Head(workflow.pending))]
    /\ UNCHANGED <<loop_vars, procs, store_vars, unit>>

\* invoke returns the user_actions harvested in this turn
WorkflowResult(w) ==
    [user_actions |-> SubSeq(w.user_actions, w.mark + 1, Len(w.user_actions))]

\* a response that leaves user_actions at its default
user_actions_default(r) == <<>>

\* process_query: user_actions = result.get('user_actions', []) if result else []
user_actions_of(r) == r.user_actions

\* the turn ends: process_query puts the user_actions of the result in its response
workflow_turn_end ==
    /\ workflow.pc = "loop"
    /\ workflow.pending = <<>>
    /\ workflow' = [workflow EXCEPT
                        !.pc = "idle",
                        !.returned = user_actions_of(WorkflowResult(workflow))]
    /\ UNCHANGED <<loop_vars, procs, store_vars, unit>>

InitWorkflow ==
    /\ InitIdle
    /\ unit = NoUnit
    /\ chat_sessions = {}
    /\ env = NoBudget
    /\ procs = <<>>

NextWorkflow ==
    \/ workflow_turn_begin
    \/ simple_tool_invoked
    \/ unified_tool_invoked
    \/ manager_tool_invoked
    \/ fold_output
    \/ workflow_turn_end

SpecWorkflow == InitWorkflow /\ [][NextWorkflow]_vars

\* the tool functions on their own: a call of one of them, with what it was given
\* and what it returned
Called(tool) ==
    /\ workflow.pc = "idle"
    /\ workflow' = [workflow EXCEPT !.last_tool = tool]
    /\ UNCHANGED <<loop_vars, procs, store_vars, unit>>

call_simple_func ==
    \E r \in Results, flag \in BOOLEAN, raises \in BOOLEAN :
        Called([result |-> r, builder |-> "simple_func", marked |-> flag, raises |-> raises,
                known |-> TRUE, out |-> simple_func(r, flag, raises)])

call_unified_func ==
    \E r \in Results, flag \in BOOLEAN, raises \in BOOLEAN, known \in BOOLEAN :
        Called([result |-> r, builder |-> "unified_func", marked |-> flag,
                raises |-> raises, known |-> known,
                out |-> unified_func(known, r, flag, raises)])

call_tool_func ==
    \E r \in Results, flag \in BOOLEAN, raises \in BOOLEAN :
        Called([result |-> r, builder |-> "tool_func", marked |-> flag, raises |-> raises,
                known |-> TRUE, out |-> tool_func(r, flag, raises)])

NextTools == call_simple_func \/ call_unified_func \/ call_tool_func

SpecTools == InitWorkflow /\ [][NextTools]_vars

(***************************************************************************)
(* deepsense/datasource.py: the unified tool of DataSource.get_tools, and  *)
(* the hand-written unified tool of tools/datasource_tools.py              *)
(***************************************************************************)
\* the parameter that every method of the tool takes, with a default
SharedParam == MaxMethods + 1

\* the methods registered under one tool name: method i takes its own parameter i
\* (with a default for the first method, required for the others) and the shared one
MethodsList(n, marked) ==
    [i \in 1..n |->
        [user_action |-> i \in marked, method_name |-> i, params |-> {i, SharedParam},
         required |-> IF i = 1 THEN {} ELSE {i}]]

\* the value of method(**args), told apart by the method and its arguments
NoInvocation == [method_name |-> 0, args |-> {}]

\* a dispatch that takes the first method whatever the action
FirstMethod(methods_list, action) == 1

\* for method_data in methods_list: if method_data["method_name"] == action
FirstMatch(methods_list, action) ==
    IF \E i \in 1..Len(methods_list) : methods_list[i].method_name = action
    THEN CHOOSE i \in 1..Len(methods_list) :
            /\ methods_list[i].method_name = action
            /\ \A j \in 1..(i - 1) : methods_list[j].method_name # action
    ELSE 0

\* what a call of a tool function did: the methods it invoked, the content it
\* returned, and for an error content what the error object holds
Outcome(invoked, out, error, available_actions, of) ==
    [invoked |-> invoked, out |-> out, error |-> error,
     available_actions |-> available_actions, of |-> of]

\* unified_func(action, **kwargs) of create_unified_func(methods_list); r is what the
\* method returns, raises whether its body raises
create_unified_func(methods_list, action, kwargs, r, raises) ==
    LET i == FirstMatch(methods_list, action)
    IN  IF i = 0
        THEN Outcome(<<>>, dumps_or_str(ErrorDict), "Unknown action",
                     [k \in 1..Len(methods_list) |-> methods_list[k].method_name],
                     NoInvocation)
        ELSE LET m == methods_list[i]
                 method_params == kwargs \cap m.params
                 call == [method_name |-> m.method_name, args |-> method_params]
             IN  IF ~(m.required \subseteq method_params)
                 THEN Outcome(<<>>, dumps_or_str(ErrorDict), "TypeError", <<>>,
                              NoInvocation)
                 ELSE IF raises
                 THEN Outcome(<<call>>, dumps_or_str(ErrorDict), "Exception", <<>>,
                              NoInvocation)
                 ELSE Outcome(<<call>>, dumps_or_str(HandleUserAction(r, m.user_action)),
                              "none", <<>>, call)

\* CoinGeckoTool._run: an if/elif chain over the action names; every branch hands all
\* the parameters of its method over, with None for the ones that were not given
CoinGeckoTool_run(methods_list, action, kwargs, r, raises) ==
    LET i == FirstMatch(methods_list, action)
    IN  IF i = 0
        THEN Outcome(<<>>, [format |-> "str", user_action |-> "absent", top |-> "error",
                            data |-> "none"],
                     "Unknown action", <<>>, NoInvocation)
        ELSE LET call == [method_name |-> methods_list[i].method_name,
                          args |-> methods_list[i].params]
             IN  IF raises
                 THEN Outcome(<<call>>, [format |-> "str", user_action |-> "absent",
                                         top |-> "error", data |-> "none"],
                              "Exception", <<>>, NoInvocation)
                 ELSE Outcome(<<call>>,
                              [dumps_or_str(FromResult(r)) EXCEPT
                                    !.format = IF r.type = "list" THEN "json_array"
                                               ELSE IF r.type = "dict" THEN "json_object"
                                               ELSE "json_string"],
                              "none", <<>>, call)

\* a call of a unified tool with an action and keyword arguments
UnitCall(fn, action, kwargs, r, raises, outcome) ==
    unit' = [unit EXCEPT !.fn = fn, !.action = action, !.kwargs = kwargs, !.r = r,
                         !.raises = raises, !.outcome = outcome]

call_unified_tool ==
    /\ unit.fn = "none"
    /\ \E action \in 0..MaxMethods, kwargs \in SUBSET (1..SharedParam), r \in Results,
          raises \in BOOLEAN :
         UnitCall("unified_func", action, kwargs, r, raises,
                  create_unified_func(unit.methods_list, action, kwargs, r, raises))
    /\ UNCHANGED <<loop_vars, procs, store_vars, workflow>>

call_coingecko_tool ==
    /\ unit.fn = "none"
    /\ \E action \in 0..MaxMethods, kwargs \in SUBSET (1..SharedParam), r \in Results,
          raises \in BOOLEAN :
         UnitCall("_run", action, kwargs, r, raises,
                  CoinGeckoTool_run(unit.methods_list, action, kwargs, r, raises))
    /\ UNCHANGED <<loop_vars, procs, store_vars, workflow>>

\* a tool name shared by two or more methods, some marked user_action
InitUnified ==
    /\ InitIdle
    /\ chat_sessions = {}
    /\ env = NoBudget
    /\ procs = <<>>
    /\ \E n \in 2..MaxMethods, marked \in SUBSET (1..MaxMethods) :
         /\ marked \subseteq 1..n
         /\ unit = [fn |-> "none", methods_list |-> MethodsList(n, marked),
                    action |-> 0, kwargs |-> {}, r |-> [type |-> "str", user_action |-> "absent"],
                    raises |-> FALSE,
                    outcome |-> Outcome(<<>>, dumps_or_str(ErrorDict), "none", <<>>,
                                        NoInvocation)]

NextUnifiedTools == call_unified_tool \/ call_coingecko_tool

SpecUnifiedTools == InitUnified /\ [][NextUnifiedTools]_vars

(***************************************************************************)
(* graph/assistant_graph.py: the loop call_llm -> use_tool -> call_llm     *)
(***************************************************************************)
\* all_tools: a Tool around a plain function, and a Tool whose function is the
\* simple_func of DataSource.get_tools
ToolBuilders == [get_weather |-> "func", datasource |-> "simple_func"]
tool_registry == DOMAIN ToolBuilders
ToolNames == tool_registry \cup {"does_not_exist"}

\* the arguments of a call: the tool's code raises on the bad ones
ToolArgs == {"good", "bad"}

\* str(result) of the dict use_tool builds for a failure
ErrorStr(names) ==
    [user_action |-> "absent", format |-> "repr_dict", top |-> "error", data |-> "none",
     names |-> names]

\* str(result) of what the tool returned
ReturnedStr(content) ==
    [user_action |-> content.user_action, format |-> content.format, top |-> content.top,
     data |-> content.data, names |-> "none"]

\* tool_registry[tool_name].invoke(tool_args): what the tool's function does
tool_invoke(tool_name, tool_args) ==
    IF ToolBuilders[tool_name] = "simple_func"
    THEN [kind |-> "returned",
          content |-> simple_func([type |-> "str", user_action |-> "absent"], FALSE,
                                  tool_args = "bad")]
    ELSE IF tool_args = "bad"
    THEN [kind |-> "raised", content |-> ErrorStr("none")]
    ELSE [kind |-> "returned", content |-> dumps_or_str(FromResult([type |-> "str",
                                                          user_action |-> "absent"]))]

\* variant: the call of the tool is not inside a try
use_tool_result_uncaught(registry, tool_call) ==
    IF tool_call.name \in registry
    THEN LET r == tool_invoke(tool_call.name, tool_call.args)
         IN  IF r.kind = "raised" THEN r
             ELSE [kind |-> "returned", content |-> ReturnedStr(r.content)]
    ELSE [kind |-> "returned", content |-> ErrorStr(tool_call.name)]

\* the body of the for loop of use_tool: the content of the ToolMessage of one call
use_tool_result(registry, tool_call) ==
    IF tool_call.name \in registry
    THEN LET r == tool_invoke(tool_call.name, tool_call.args)
         IN  IF r.kind = "raised" THEN [kind |-> "returned", content |-> ErrorStr("none")]
             ELSE [kind |-> "returned", content |-> ReturnedStr(r.content)]
    ELSE [kind |-> "returned", content |-> ErrorStr(tool_call.name)]

AssistantUnchanged ==
    UNCHANGED <<caller, session_id, current_tool_index, tool_output, tools_bound, steps,
                sd, engine, chat_sessions, chat_messages, agent_states_cache, result,
                finish_order, turn_log>>

\* process_query: the initial state of the graph, entered at call_llm
assistant_process_query ==
    /\ node = "idle"
    /\ env.queries > 0
    /\ env' = [env EXCEPT !.queries = @ - 1]
    /\ messages' = <<SystemMessage, HumanMessage>>
    /\ tool_outputs' = <<>>
    /\ node' = "call_llm"
    /\ AssistantUnchanged
    /\ UNCHANGED <<response, next_call_id>>
    /\ UNCHANGED ext

should_use_tool(msgs) ==
    IF msgs # <<>> /\ msgs[Len(msgs)].type = "ai" /\ msgs[Len(msgs)].tool_calls # <<>>
    THEN "use_tool" ELSE "generate_final_response"

call_llm ==
    /\ node = "call_llm"
    /\ \E k \in CallCounts :
        \E names \in [1..k -> ToolNames], args \in [1..k -> ToolArgs] :
            LET calls == [i \in 1..k |-> [id |-> next_call_id + i - 1, args |-> args[i],
                                          name |-> names[i]]]
            IN  /\ messages' = Append(messages, AIMessage(calls))
                /\ next_call_id' = next_call_id + k
                /\ env' = [env EXCEPT !.total = @ - k]
                /\ node' = should_use_tool(messages')
    /\ AssistantUnchanged
    /\ UNCHANGED <<tool_outputs, response>>
    /\ UNCHANGED ext

\* use_tool, and the edge use_tool -> call_llm. An exception that leaves the node
\* leaves graph.invoke
use_tool ==
    /\ node = "use_tool"
    /\ LET calls == messages[Len(messages)].tool_calls
           results == [i \in 1..Len(calls) |-> use_tool_result(tool_registry, calls[i])]
       IN  IF \E i \in 1..Len(calls) : results[i].kind = "raised"
           THEN /\ node' = "raised"
                /\ UNCHANGED <<messages, tool_outputs>>
           ELSE /\ messages' = messages \o
                       [i \in 1..Len(calls) |-> ToolMessage(results[i].content, calls[i].id)]
                /\ tool_outputs' = tool_outputs \o
                       [i \in 1..Len(calls) |-> [result |-> results[i].content,
                                                 args |-> calls[i].args,
                                                 tool_name |-> calls[i].name]]
                /\ node' = "call_llm"
    /\ AssistantUnchanged
    /\ UNCHANGED <<response, next_call_id, env>>
    /\ UNCHANGED ext

generate_final_response ==
    /\ node = "generate_final_response"
    /\ response' = [NoResponse EXCEPT !.success = TRUE, !.response = "final_response"]
    /\ node' = "end"
    /\ AssistantUnchanged
    /\ UNCHANGED <<messages, tool_outputs, next_call_id, env>>
    /\ UNCHANGED ext

InitAssistant ==
    /\ InitCommon
    /\ env = [NoBudget EXCEPT !.total = MaxCalls, !.calls = MaxCallsPerMsg, !.queries = 1]

NextAssistant ==
    assistant_process_query \/ call_llm \/ use_tool \/ generate_final_response

SpecAssistant == InitAssistant /\ [][NextAssistant]_vars

(***************************************************************************)
(* utils/token_utils.py: chunk_data_by_tokens on the characters of a text  *)
(***************************************************************************)
Punctuation == {",", ".", ";", "!", "?"}

Run(n) == [i \in 1..n |-> "a"]

\* the texts given to the function: up to k blocks, each a run of letters, a mark or
\* a line delimiter
Blocks == {Run(1), Run(MaxRun), <<",">>, <<"\n">>}

RECURSIVE Texts(_)
Texts(k) ==
    IF k = 0 THEN {<<>>}
    ELSE LET T == Texts(k - 1) IN T \cup {t \o b : t \in T, b \in Blocks}

\* data.split('\n')
RECURSIVE split(_)
split(data) ==
    IF \A i \in 1..Len(data) : data[i] # "\n" THEN <<data>>
    ELSE LET i == CHOOSE j \in 1..Len(data) :
                      data[j] = "\n" /\ \A h \in 1..(j - 1) : data[h] # "\n"
         IN  <<SubSeq(data, 1, i - 1)>> \o split(SubSeq(data, i + 1, Len(data)))

\* for i in range(char_limit, max(0, char_limit - 100), -1): the first mark found
\* (indices from 0) sets split_point = i + 1
SplitPoint(remaining_line, char_limit) ==
    LET lo == IF char_limit - 100 > 0 THEN char_limit - 100 ELSE 0
        found == {i \in (lo + 1)..char_limit : remaining_line[i + 1] \in Punctuation}
    IN  IF found = {} THEN char_limit ELSE Max(found) + 1

\* variant: the remainder starts one character after the split point
RECURSIVE SplitTextSkips(_, _)
SplitTextSkips(remaining_line, char_limit) ==
    IF Len(remaining_line) = 0 THEN <<>>
    ELSE IF Len(remaining_line) <= char_limit THEN <<remaining_line>>
    ELSE LET split_point == SplitPoint(remaining_line, char_limit)
         IN  <<SubSeq(remaining_line, 1, split_point)>>
                \o SplitTextSkips(SubSeq(remaining_line, split_point + 2,
                                         Len(remaining_line)), char_limit)

\* while len(remaining_line) > 0
RECURSIVE SplitText(_, _)
SplitText(remaining_line, char_limit) ==
    IF Len(remaining_line) = 0 THEN <<>>
    ELSE IF Len(remaining_line) <= char_limit THEN <<remaining_line>>
    ELSE LET split_point == SplitPoint(remaining_line, char_limit)
         IN  <<SubSeq(remaining_line, 1, split_point)>>
                \o SplitText(SubSeq(remaining_line, split_point + 1,
                                    Len(remaining_line)), char_limit)

\* for line in lines
RECURSIVE ChunksOfLines(_, _)
ChunksOfLines(lines, max_tokens) ==
    IF lines = <<>> THEN <<>>
    ELSE (IF estimate_token_count(Len(Head(lines))) < max_tokens
          THEN <<Head(lines)>>
          ELSE SplitText(Head(lines), max_tokens * 4))
         \o ChunksOfLines(Tail(lines), max_tokens)

\* chunk_data_by_tokens(data, max_tokens, model="claude-3-opus")
ChunksOfText(data, max_tokens) == ChunksOfLines(split(data), max_tokens)

call_chunk_data_by_tokens ==
    /\ unit.fn = "none"
    /\ unit' = [unit EXCEPT !.fn = "chunk_data_by_tokens",
                            !.chunks = ChunksOfText(unit.data, unit.max_tokens)]
    /\ UNCHANGED <<loop_vars, procs, store_vars, workflow>>

InitChunk ==
    /\ InitIdle
    /\ chat_sessions = {}
    /\ env = NoBudget
    /\ procs = <<>>
    /\ \E data \in Texts(MaxBlocks), max_tokens \in 1..MaxTokens :
          unit = [max_tokens |-> max_tokens, data |-> data, fn |-> "none", chunks |-> <<>>]

NextChunk == call_chunk_data_by_tokens

SpecChunk == InitChunk /\ [][NextChunk]_vars

(***************************************************************************)
(* The sub-engine on its own: schema_discovery_wrapper on a tool output,   *)
(* every model call returning                                              *)
(***************************************************************************)
\* GraphRecursionError inside schema_subgraph.invoke: a node of the sub-engine is due
\* after SubgraphRecursionLimit supersteps; the exception leaves the wrapper
subgraph_recursion_limit_reached ==
    /\ node = "discover_schema"
    /\ sd.node \notin {"idle", "emit"}
    /\ sd.steps >= SubgraphRecursionLimit
    /\ EngineRaises
    /\ UNCHANGED ext

\* a tool output of more lines than half the limit: each line is a chunk
DeepResult == [i \in 1..((SubgraphRecursionLimit \div 2) + 1) |-> 4500]

EngineResults == {OverThresholdResult, ManyLinesResult, DeepResult}

\* the turn has come to discover_schema with the output of its one tool call
InitTermination ==
    /\ node = "discover_schema"
    /\ caller = "api"
    /\ session_id = 1
    /\ \E lines \in EngineResults : tool_output = ToolMessage(Raw(lines), 1)
    /\ tool_outputs = <<tool_output>>
    /\ \E reason \in {"absent", "why"} :
          messages = <<SystemMessage, HumanMessage,
                       AIMessage(<<[id |-> 1, reason |-> reason]>>)>>
    /\ current_tool_index = 0
    /\ tools_bound = TRUE
    /\ steps = 5
    /\ sd = SdIdle
    /\ engine \in {"graph", "deepsense"}
    /\ chat_sessions = {1}
    /\ chat_messages = save_message(save_message(<<>>, 1, "HumanMessage",
                                                 HumanMessage.content, 0, FALSE),
                                    1, "AIMessage", AIMessage(<<>>).content, 0, FALSE)
    /\ agent_states_cache = <<>>
    /\ result = NoResult
    /\ response = NoResponse
    /\ next_call_id = 2
    /\ finish_order = <<1>>
    /\ turn_log = [NewLog EXCEPT !.turns = 1, !.model_calls = 1, !.binds = 1,
                                 !.dispatched = {1}]
    /\ env = [NoBudget EXCEPT !.long = MaxLong]
    /\ procs = <<>>
    /\ sessions_collection = <<>>
    /\ checkpoints = <<>>
    /\ store_calls = 0
    /\ last_call = NoCall
    /\ workflow = WorkflowIdle
    /\ unit = NoUnit

NextTermination ==
    \/ schema_discovery_wrapper_begin
    \/ decide_processing_mode
    \/ next_chunk
    \/ schema_from_chunks_schema
    \/ schema_from_chunks_summarize
    \/ schema_from_chunks_parallel
    \/ merge_and_emit_tool_message
    \/ schema_discovery_wrapper_end
    \/ subgraph_recursion_limit_reached

\* the runner of the graph executes the node that is due
SpecTermination ==
    InitTermination /\ [][NextTermination]_vars /\ WF_vars(NextTermination)

(***************************************************************************)
(* utils/db_utils.py: one call of create_session, save_message or          *)
(* delete_session on its pooled connection, statement by statement         *)
(***************************************************************************)
MaxDbCalls == 3
MaxDbSessions == 2

\* SimpleConnectionPool(minconn=1, maxconn=10)
PoolSize == 10

EmptyTables == [chat_sessions |-> {}, chat_messages |-> <<>>]

\* the number of cursor.execute calls in the function
StatementsOf(fn) == IF fn = "save_message" THEN 3 ELSE 1

\* session_id UUID REFERENCES chat_sessions(session_id)
ForeignKeyViolation(T, sid) == \A s \in T.chat_sessions : s.session_id # sid

\* the k-th cursor.execute of u.fn, applied to the tables T its transaction sees
Statement(u, T) ==
    CASE u.fn = "create_session" ->
            [T EXCEPT !.chat_sessions =
                @ \cup {[session_id |-> u.session_id, created_at |-> u.clock,
                         updated_at |-> u.clock]}]
      [] u.fn = "save_message" /\ u.k = 1 -> T
      [] u.fn = "save_message" /\ u.k = 2 ->
            [T EXCEPT !.chat_messages =
                Append(@, [session_id |-> u.session_id, sequence_order |-> u.seq,
                           timestamp |-> u.clock])]
      [] u.fn = "save_message" /\ u.k = 3 ->
            [T EXCEPT !.chat_sessions =
                {IF s.session_id = u.session_id THEN [s EXCEPT !.updated_at = u.clock]
                 ELSE s : s \in @}]
      [] u.fn = "delete_session" ->
            [chat_sessions |-> {s \in T.chat_sessions : s.session_id # u.session_id},
             chat_messages |-> SelectSeq(T.chat_messages, LAMBDA r : r.session_id # u.session_id)]

\* a statement that commits on its own, as on a connection in autocommit mode
execute_autocommit(u, T) == [u EXCEPT !.tx = T, !.committed = T]

\* cursor.execute on a psycopg2 connection: the effect stays inside the transaction
execute(u, T) == [u EXCEPT !.tx = T]

\* get_connection() and the entry of the try block
db_call ==
    /\ unit.pc = "idle"
    /\ unit.calls < MaxDbCalls
    /\ unit.pool > 0
    /\ \E fn \in {"create_session", "save_message", "delete_session"},
          sid \in 1..MaxDbSessions :
          unit' = [unit EXCEPT !.fn = fn, !.pc = "execute", !.k = 1, !.seq = 0,
                               !.session_id = IF fn = "create_session" THEN unit.next_id
                                              ELSE sid,
                               !.next_id = IF fn = "create_session" THEN @ + 1 ELSE @,
                               !.calls = @ + 1, !.clock = @ + 1,
                               !.tx = unit.committed, !.before = unit.committed,
                               !.pool = @ - 1, !.pool_before = unit.pool,
                               !.closed = FALSE, !.raised = FALSE]
    /\ UNCHANGED <<loop_vars, procs, store_vars, workflow>>

\* the next cursor.execute: it takes effect, or the database rejects it (the foreign
\* key of chat_messages) and the exception enters the except block
db_execute ==
    /\ unit.pc = "execute"
    /\ unit' =
         IF unit.fn = "save_message" /\ unit.k = 2
            /\ ForeignKeyViolation(unit.tx, unit.session_id)
         THEN [unit EXCEPT !.pc = "except"]
         ELSE [execute(unit, Statement(unit, unit.tx)) EXCEPT
                 !.seq = IF unit.fn = "save_message" /\ unit.k = 1
                         THEN NextSequenceOrder(unit.tx.chat_messages, unit.session_id)
                         ELSE @,
                 !.k = IF unit.k = StatementsOf(unit.fn) THEN @ ELSE @ + 1,
                 !.pc = IF unit.k = StatementsOf(unit.fn) THEN "commit" ELSE "execute"]
    /\ UNCHANGED <<loop_vars, procs, store_vars, workflow>>

\* cursor.execute or conn.commit raises a database error; the connection survives
\* it, or it was lost (conn.closed is set)
db_error ==
    /\ unit.pc \in {"execute", "commit"}
    /\ \E closed \in BOOLEAN : unit' = [unit EXCEPT !.pc = "except", !.closed = closed]
    /\ UNCHANGED <<loop_vars, procs, store_vars, workflow>>

\* conn.commit() and the return
db_commit ==
    /\ unit.pc = "commit"
    /\ unit' = [unit EXCEPT !.committed = unit.tx, !.pc = "finally"]
    /\ UNCHANGED <<loop_vars, procs, store_vars, workflow>>

\* except Exception: conn.rollback(); raise
db_except ==
    /\ unit.pc = "except"
    /\ unit' = [unit EXCEPT !.tx = unit.committed, !.raised = TRUE, !.pc = "finally"]
    /\ UNCHANGED <<loop_vars, procs, store_vars, workflow>>

\* finally: return_connection(conn): a connection that is not closed is rolled back
\* and put back, a closed one is not returned to the pool
return_connection ==
    /\ unit.pc = "finally"
    /\ unit' = [unit EXCEPT !.tx = unit.committed, !.pc = "idle",
                            !.pool = IF unit.closed THEN @ ELSE @ + 1]
    /\ UNCHANGED <<loop_vars, procs, store_vars, workflow>>

InitDb ==
    /\ InitIdle
    /\ chat_sessions = {}
    /\ env = NoBudget
    /\ procs = <<>>
    /\ unit = [session_id |-> 0, calls |-> 0, seq |-> 0, pc |-> "idle", fn |-> "none",
               k |-> 1, clock |-> 0, tx |-> EmptyTables, committed |-> EmptyTables,
               pool |-> PoolSize, next_id |-> 1, before |-> EmptyTables,
               pool_before |-> PoolSize, closed |-> FALSE, raised |-> FALSE]

NextDb ==
    \/ db_call
    \/ db_execute
    \/ db_error
    \/ db_commit
    \/ db_except
    \/ return_connection

SpecDb == InitDb /\ [][NextDb]_vars

(***************************************************************************)
(* api/main.py: a series of POST /query requests, each on a new session,   *)
(* answered by the model without a tool call; more sessions than the       *)
(* cache holds                                                             *)
(***************************************************************************)
MaxQueries == 11

InitCache ==
    /\ InitCommon
    /\ env = [NoBudget EXCEPT !.queries = MaxQueries]

NextCache ==
    \/ process_user_query_new
    \/ tool_selection_node
    \/ model_node
    \/ model_node_raises
    \/ router

SpecCache == InitCache /\ [][NextCache]_vars

(***************************************************************************)
(* utils/token_utils.py: chunk_data_by_tokens step by step, one action per *)
(* pass of its loops; of the chunks only the last one appended is kept     *)
(***************************************************************************)
\* for line in lines: a line under max_tokens is a chunk, any other line enters
\* the while loop
chunk_for_line ==
    /\ unit.pc = "for"
    /\ unit.lines # <<>>
    /\ LET line == Head(unit.lines)
       IN  unit' = IF estimate_token_count(Len(line)) < unit.max_tokens
                   THEN [unit EXCEPT !.lines = Tail(@), !.last = line]
                   ELSE [unit EXCEPT !.lines = Tail(@), !.remaining_line = line,
                                     !.pc = "while"]
    /\ UNCHANGED <<loop_vars, procs, store_vars, workflow>>

\* one evaluation of `while len(remaining_line) > 0` and the pass it starts
chunk_while_pass ==
    /\ unit.pc = "while"
    /\ LET remaining_line == unit.remaining_line
           char_limit == unit.max_tokens * 4
           split_point == SplitPoint(remaining_line, char_limit)
       IN  unit' =
             IF Len(remaining_line) = 0 THEN [unit EXCEPT !.pc = "for"]
             ELSE IF Len(remaining_line) <= char_limit
             THEN [unit EXCEPT !.last = remaining_line, !.pc = "for"]
             ELSE [unit EXCEPT !.last = SubSeq(remaining_line, 1, split_point),
                               !.remaining_line =
                                   SubSeq(remaining_line, split_point + 1,
                                          Len(remaining_line))]
    /\ UNCHANGED <<loop_vars, procs, store_vars, workflow>>

\* return chunks
chunk_return ==
    /\ unit.pc = "for"
    /\ unit.lines = <<>>
    /\ unit' = [unit EXCEPT !.pc = "return"]
    /\ UNCHANGED <<loop_vars, procs, store_vars, workflow>>

InitChunkLoop ==
    /\ InitIdle
    /\ chat_sessions = {}
    /\ env = NoBudget
    /\ procs = <<>>
    /\ \E data \in Texts(MaxBlocks), max_tokens \in 0..MaxTokens :
          unit = [lines |-> split(data), max_tokens |-> max_tokens, data |-> data,
                  pc |-> "for", fn |-> "chunk_data_by_tokens", remaining_line |-> <<>>,
                  last |-> <<>>]

NextChunkLoop == chunk_for_line \/ chunk_while_pass \/ chunk_return

\* the function is sequential code: it takes its next step as long as there is one
SpecChunkLoop == InitChunkLoop /\ [][NextChunkLoop]_vars /\ WF_vars(NextChunkLoop)

(***************************************************************************)
(* Properties                                                              *)
(***************************************************************************)
\* the turn ended on an assistant message without tool calls
Completed == node = "idle" /\ result.kind = "state"

Synthetic(m) == m.type = "tool" /\ m.content.kind # "raw"

\* the Tool messages after position i that answer call id
Answers(i, id) ==
    {j \in (i + 1)..Len(messages) :
        messages[j].type = "tool" /\ messages[j].tool_call_id = id}

\* C1: after a completed turn every tool call of every assistant message in
\* messages has exactly one later Tool message with its call id.
ToolCallClosure ==
    Completed =>
        \A i \in 1..Len(messages) :
            \A c \in 1..Len(messages[i].tool_calls) :
                Cardinality(Answers(i, messages[i].tool_calls[c].id)) = 1

\* a completed turn with two dispatches, one of two calls, and a compacted output
ToolCallClosureWitness ==
    /\ Completed
    /\ \E i, j \in 1..Len(messages) :
        /\ i # j
        /\ Len(messages[i].tool_calls) = 2
        /\ Len(messages[j].tool_calls) >= 1
    /\ \E j \in 1..Len(messages) : Synthetic(messages[j])

\* C2: the Tool messages of one dispatch are in messages in the order of the tool
\* calls of the assistant message, compacted or not, whatever order the tools
\* finished in: an answer to a later call is preceded by an answer to each
\* earlier call.
OrderPreservation ==
    \A i \in 1..Len(messages) :
        \A a, b \in 1..Len(messages[i].tool_calls) :
            a < b =>
                \A jb \in Answers(i, messages[i].tool_calls[b].id) :
                    \E ja \in Answers(i, messages[i].tool_calls[a].id) : ja < jb

\* the second call finished first, both outputs are folded, one of them compacted
OrderPreservationWitness ==
    /\ Len(messages) >= 2
    /\ Len(finish_order) = 2
    /\ LET ai == messages[Len(messages) - 2]
       IN  /\ Len(ai.tool_calls) = 2
           /\ finish_order = <<ai.tool_calls[2].id, ai.tool_calls[1].id>>
           /\ messages[Len(messages) - 1].tool_call_id = ai.tool_calls[1].id
           /\ messages[Len(messages)].tool_call_id = ai.tool_calls[2].id
           /\ Synthetic(messages[Len(messages) - 1]) # Synthetic(messages[Len(messages)])

\* the step in which schema_discovery_wrapper returns to the agent loop
EngineReturns == node = "discover_schema" /\ node' = "select_tool_output"

NoRawOversize ==
    \A j \in 1..Len(messages) :
        (messages[j].type = "tool" /\ messages[j].content.kind = "raw")
            => estimate_token_count(messages[j].content.len) <= Threshold

ThresholdRouting ==
    /\ [](node \in {"discover_schema", "add_tool_messages"} =>
            /\ tool_output \notin {None, EmptyList}
            /\ (node = "discover_schema"
                  <=> estimate_token_count(tool_output.content.len) > Threshold))
    /\ [][(node = "select_tool_output" /\ node' \in {"discover_schema", "add_tool_messages"})
              => tool_output' = tool_outputs[current_tool_index + 2]]_vars
    /\ [][node = "add_tool_messages" => messages' = Append(messages, tool_output)]_vars

\* an output whose estimate equals the threshold is about to be folded, after
\* another output of the turn went through the engine
ThresholdRoutingWitness ==
    /\ node = "add_tool_messages"
    /\ estimate_token_count(tool_output.content.len) = Threshold
    /\ \E j \in 1..Len(messages) : Synthetic(messages[j])

\* C5: no Tool message with a data_schema and a missing, null or empty data_uri
\* is ever in messages.
NoSchemaWithoutUri ==
    \A j \in 1..Len(messages) :
        messages[j].content.kind = "schema" => messages[j].content.uri = "https"

\* C6: in summarize mode summaries ends with exactly one entry per batch, also
\* when a model call inside a batch raises.
OneSummaryPerBatch ==
    (/\ engine = "deepsense"
     /\ node = "discover_schema"
     /\ sd.node \in {"merge", "emit"}
     /\ sd.processing_mode = "summarize")
        => /\ Len(sd.summaries) = Len(sd.parallel_chunks)
           /\ \A b \in 1..Len(sd.parallel_chunks) :
                \E k \in 1..Len(sd.summaries) : sd.summaries[k].of = b

\* C7: the estimate of a synthetic Tool message is at most the estimate of the
\* tool result it replaces.
CompactionMonotone ==
    \A j \in 1..Len(messages) : \A k \in 1..Len(tool_outputs) :
        (Synthetic(messages[j]) /\ messages[j].tool_call_id = tool_outputs[k].tool_call_id)
            => estimate_token_count(messages[j].content.len)
                  <= estimate_token_count(tool_outputs[k].content.len)

\* C8: a turn resumed after the process died works from the pending outputs
\* that were persisted: each is in tool_outputs or already in messages, and
\* the model is not invoked before they are folded.
CheckpointResume ==
    (turn_log.crashed /\ node # "idle") =>
        \A k \in 1..Len(turn_log.pending_at_crash) :
            \/ Answered(messages, turn_log.pending_at_crash[k].tool_call_id)
            \/ /\ \E o \in 1..Len(tool_outputs) :
                    tool_outputs[o] = turn_log.pending_at_crash[k]
               /\ turn_log.model_calls = 0

\* C9: the state loaded for a session after its turn was stored equals the
\* state of the turn: the messages after the system prompt, with the tool
\* calls, the call ids and the order.
CheckpointRoundTrip ==
    Completed => LoadHistory(chat_messages, session_id) = Tail(messages)

\* C10: a turn that exceeds the recursion limit returns an agent state whose
\* last message is a diagnostic assistant message.
RecursionBoundDiagnostic ==
    turn_log.overflow =>
        /\ result.kind = "state"
        /\ result.messages # <<>>
        /\ Last(result.messages).type = "ai"


\* C11: the tool catalog is bound once per session: a session sees at most one
\* binding, and a later turn of the session starts at the model node.
BoundOncePerSession ==
    /\ turn_log.binds <= 1
    /\ (turn_log.turns > 1 /\ node # "idle" /\ steps = 0) => node = "model"


\* C12: after a model step the loop dispatches the tools iff the last assistant
\* message has tool calls and otherwise ends the turn with that message as the
\* last one (a turn cut by the recursion limit aside); the tools run only on an
\* assistant message with tool calls.
RouterDecision ==
    /\ [][node = "router" =>
            \/ /\ messages[Len(messages)].tool_calls # <<>>
               /\ node' = "tools"
            \/ /\ messages[Len(messages)].tool_calls = <<>>
               /\ node' = "idle"
               /\ result' = StateValue(messages)
            \/ turn_log'.overflow]_vars
    /\ [](node = "tools" =>
            /\ messages[Len(messages)].type = "ai"
            /\ messages[Len(messages)].tool_calls # <<>>)
    /\ [](Completed =>
            /\ result.messages[Len(result.messages)].type = "ai"
            /\ result.messages[Len(result.messages)].tool_calls = <<>>)

\* a turn that went through the router three times: twice to the tools, then to the end
RouterDecisionWitness ==
    /\ Completed
    /\ turn_log.model_calls = 3
    /\ Cardinality(turn_log.dispatched) >= 2


CountType(msgs, t) == Cardinality({i \in 1..Len(msgs) : msgs[i].type = t})

\* C13: in a session, after any number of turns, messages is one System message
\* at the head and then the turns of the session in order, each with its single
\* User message: as many User messages as the session has had turns.
SessionMessageStructure ==
    (node # "idle" \/ Completed) =>
        /\ messages[1].type = "system"
        /\ CountType(messages, "system") = 1
        /\ CountType(messages, "human") = turn_log.turns


\* every Tool message of msgs answers a tool call of an earlier assistant message
ToolIdsMatch(msgs) ==
    \A j \in 1..Len(msgs) :
        msgs[j].type = "tool" =>
            \E i \in 1..(j - 1) :
                /\ msgs[i].type = "ai"
                /\ \E c \in 1..Len(msgs[i].tool_calls) :
                      msgs[i].tool_calls[c].id = msgs[j].tool_call_id

\* C14: every Tool message handed to the agent loop has the call id of a tool
\* call of an earlier assistant message, in the messages of the running turn and
\* in the messages that process_user_query rebuilds from the stored history of
\* the session for its next turn.
HistoryToolCallsMatch ==
    /\ ToolIdsMatch(messages)
    /\ Completed =>
          ToolIdsMatch(<<SystemMessage>> \o LoadHistory(chat_messages, session_id)
                          \o <<HumanMessage>>)


\* the positions in chat_messages of the rows of session sid, in sequence order
StoredRows(sid) ==
    SortSeq(SelectSeq([i \in 1..Len(chat_messages) |-> i],
                      LAMBDA i : chat_messages[i].session_id = sid),
            LAMBDA a, b : chat_messages[a].sequence_order < chat_messages[b].sequence_order)

\* C15: after two concurrent turns on one session the stored state of the session
\* is the result of one of the turns, never a mixture of the messages of both.
LastWriterWins ==
    (\A c \in Callers : procs[c].pc = "done") =>
        \E c \in Callers : StoredRows(procs[c].sid) = procs[c].saved

\* the session records under id sid
SessionDocs(sid) ==
    {i \in 1..Len(sessions_collection) : sessions_collection[i].session_id = sid}

\* C16: create_session is idempotent on session_id: every call that was given an
\* id returns that id, the id has exactly one session record whatever the number
\* and the interleaving of the calls, no call changes a record that exists, and a
\* call without an id adds a record under an id that had no record before.
IdempotentCreate ==
    /\ [](\A c \in DOMAIN procs :
            procs[c].ret # 0 =>
                /\ procs[c].ret = procs[c].session_id
                /\ Cardinality(SessionDocs(procs[c].ret)) = 1)
    /\ [][/\ Len(sessions_collection') >= Len(sessions_collection)
          /\ \A i \in 1..Len(sessions_collection) :
                sessions_collection'[i] = sessions_collection[i]
          /\ \A c \in DOMAIN procs :
                (procs'[c] # procs[c] /\ ~procs'[c].given) =>
                    /\ SessionDocs(procs'[c].ret) = {}
                    /\ sessions_collection' =
                          Append(sessions_collection,
                                 SessionDoc(procs'[c].ret, procs'[c].user_id))]_vars

\* two callers raced on one id that had no record: both passed find_one, one
\* inserted, the other met the unique index; an earlier call without an id left
\* a record under a generated id
IdempotentCreateWitness ==
    \E a, b \in DOMAIN procs :
        /\ a # b
        /\ procs[a].ret # 0
        /\ procs[a].ret = procs[b].ret
        /\ procs[a].user_id # procs[b].user_id
        /\ procs[a].outcome = "inserted"
        /\ procs[b].outcome = "duplicate"
        /\ \E i \in 1..Len(sessions_collection) :
              sessions_collection[i].session_id \notin SessionIds

ExistingSessionProcessed ==
    /\ (response.session_id \in chat_sessions) => response.error # "TypeError"
    /\ (caller = "api" /\ node # "idle" /\ turn_log.turns > 1) =>
          /\ session_id = response.session_id
          /\ CountType(messages, "human") = turn_log.turns

UserActionStamping ==
    LET t == workflow.last_tool
    IN  (t.builder # "none" /\ ~t.raises /\ t.known) =>
            IF ~t.marked
            THEN t.out.top = "result" /\ t.out.user_action = t.result.user_action
            ELSE IF t.result.type = "dict"
            THEN /\ t.out.format = "json_object"
                 /\ t.out.top = "result"
                 /\ t.out.user_action = IF t.result.user_action = "absent"
                                        THEN "true" ELSE t.result.user_action
            ELSE /\ t.out.format = "json_object"
                 /\ t.out.top = "wrapper"
                 /\ t.out.user_action = "true"
                 /\ t.out.data = "result"

UnknownActionError ==
    (/\ unit.fn # "none"
     /\ \A i \in 1..Len(unit.methods_list) : unit.methods_list[i].method_name # unit.action) =>
        /\ unit.outcome.invoked = <<>>
        /\ unit.outcome.error = "Unknown action"
        /\ unit.outcome.out.format = "json_object"
        /\ unit.outcome.out.top = "error"
        /\ unit.outcome.available_actions =
              [k \in 1..Len(unit.methods_list) |-> unit.methods_list[k].method_name]

\* C23: a tool that raises, or a call that names a tool that does not exist, does not
\* abort the turn: use_tool appends one Tool message per call, paired with the call's
\* id; the content of the message of a failed call is an error object, which names the
\* tool when the tool is unknown; and the next node is the model call.
ToolFailureContinues ==
    [][node = "use_tool" =>
        LET calls == messages[Len(messages)].tool_calls
        IN  /\ node' = "call_llm"
            /\ Len(messages') = Len(messages) + Len(calls)
            /\ \A i \in 1..Len(calls) :
                  LET m == messages'[Len(messages) + i]
                  IN  /\ m.type = "tool"
                      /\ m.tool_call_id = calls[i].id
                      /\ calls[i].name \notin tool_registry =>
                            (m.content.top = "error" /\ m.content.names = calls[i].name)
                      /\ (calls[i].name \in tool_registry /\ calls[i].args = "bad") =>
                            (/\ m.content.top = "error"
                             /\ m.content.format \in {"repr_dict", "json_object"})]_vars

\* both failures happened in one turn and the model was called again after them
ToolFailureContinuesWitness ==
    /\ \E j \in 1..Len(messages) : \E c \in 1..Len(messages[j].tool_calls) :
          /\ messages[j].tool_calls[c].name = "does_not_exist"
          /\ \E t \in (j + 1)..Len(messages) :
                /\ messages[t].type = "tool"
                /\ messages[t].tool_call_id = messages[j].tool_calls[c].id
                /\ messages[t].content.names = "does_not_exist"
    /\ \E j \in 1..Len(messages) : \E c \in 1..Len(messages[j].tool_calls) :
          /\ messages[j].tool_calls[c].name = "get_weather"
          /\ messages[j].tool_calls[c].args = "bad"
          /\ \E t \in (j + 1)..Len(messages) :
                /\ messages[t].type = "tool"
                /\ messages[t].tool_call_id = messages[j].tool_calls[c].id
                /\ messages[t].content.top = "error"
    /\ messages[Len(messages)].type = "ai"
    /\ messages[Len(messages) - 1].type = "tool"

\* C24: every chunk that chunk_data_by_tokens returns has an estimated token count of
\* at most max_tokens, or of one token more.
ChunkWithinMaxTokens ==
    unit.fn = "chunk_data_by_tokens" =>
        \A i \in 1..Len(unit.chunks) :
            estimate_token_count(Len(unit.chunks[i])) <= unit.max_tokens + 1

\* the characters of a text that are not line delimiters
Stripped(data) == SelectSeq(data, LAMBDA ch : ch # "\n")

RECURSIVE Concat(_)
Concat(chunks) == IF chunks = <<>> THEN <<>> ELSE Head(chunks) \o Concat(Tail(chunks))

\* C25: the chunks of a text, concatenated in order, are the text without its line
\* delimiters: no other character is dropped, duplicated or moved.
ChunkingCoverage ==
    unit.fn = "chunk_data_by_tokens" => Concat(unit.chunks) = Stripped(unit.data)

\* a text of several lines, one of them split at a punctuation mark
ChunkingCoverageWitness ==
    /\ unit.fn = "chunk_data_by_tokens"
    /\ \E i \in 1..Len(unit.data) : unit.data[i] = "\n"
    /\ Len(unit.chunks) >= 3
    /\ \E i \in 1..Len(unit.chunks) :
          /\ unit.chunks[i] # <<>>
          /\ unit.chunks[i][Len(unit.chunks[i])] = ","
          /\ Len(unit.chunks[i]) < unit.max_tokens * 4
          /\ Len(unit.chunks[i]) > 1

\* C30: chunk_data_by_tokens puts consecutive lines in one chunk and starts a new chunk
\* only when the next line would take the chunk over max_tokens; a text whose estimate
\* is at most max_tokens comes back as one chunk.
ChunkAccumulatesLines ==
    unit.fn = "chunk_data_by_tokens" =>
        /\ estimate_token_count(Len(unit.data)) <= unit.max_tokens => Len(unit.chunks) = 1
        /\ (\A l \in 1..Len(split(unit.data)) :
                estimate_token_count(Len(split(unit.data)[l])) < unit.max_tokens) =>
              \A i \in 1..(Len(unit.chunks) - 1) :
                  estimate_token_count(Len(unit.chunks[i]) + 1 + Len(unit.chunks[i + 1]))
                      > unit.max_tokens

\* C26: when the agent loop of a POST /query fails fatally, the request is answered
\* with HTTP status 500, and the answer does not report a successful turn.
FatalLoopErrorIs500 ==
    (caller = "none" /\ result = ErrorValue /\ response # NoResponse) =>
        /\ response.status_code = 500
        /\ ~response.success

\* C27: in summarize mode the pending chunks are cut into consecutive batches of at
\* most 8 chunks, every chunk in one batch and at its place, and summaries holds the
\* merged summary of each batch in batch order, whatever order the batches finish in.
SummariesInBatchOrder ==
    (/\ engine = "deepsense"
     /\ node = "discover_schema"
     /\ sd.processing_mode = "summarize"
     /\ sd.parallel_chunks # <<>>) =>
        /\ \A b \in 1..Len(sd.parallel_chunks) :
              Len(sd.parallel_chunks[b]) \in 1..BatchSize
        /\ \A j \in 1..Len(Concat(sd.parallel_chunks)) :
              Concat(sd.parallel_chunks)[j].pos = j
        /\ Len(sd.summaries) = Len(sd.parallel_chunks) =>
              \A i \in 1..Len(sd.summaries) : sd.summaries[i].of = i

\* the chunks the engine was started on
EngineChunks ==
    chunk_data_by_tokens(tool_output.content.lines,
                         IF engine = "graph" THEN GraphMaxTokens ELSE DeepsenseMaxTokens)

\* C28: in schema mode, on n >= 1 chunks, the reduction model is called on the first
\* min(n, 4) chunks, in order, each call with the schema of the call before it (none
\* for the first), and final_schema is what the last call returned.
SchemaRefinement ==
    (InEngine("emit") /\ sd.processing_mode = "schema") =>
        LET n == Len(EngineChunks)
            calls == IF n < SchemaIterationLimit + 1 THEN n ELSE SchemaIterationLimit + 1
        IN  /\ n >= 1
            /\ Len(sd.partial_schemas) = calls
            /\ \A i \in 1..calls :
                  /\ sd.partial_schemas[i].chunk = i
                  /\ sd.partial_schemas[i].previous = i - 1
            /\ sd.final_schema = sd.partial_schemas[calls].len

\* more chunks than calls: the loop stopped at the limit, and the last call is told
\* from the others by what it returned
SchemaRefinementWitness ==
    /\ InEngine("emit")
    /\ sd.processing_mode = "schema"
    /\ Len(EngineChunks) > SchemaIterationLimit + 1
    /\ Len(sd.partial_schemas) = SchemaIterationLimit + 1
    /\ sd.pending_chunks # <<>>
    /\ sd.final_schema = LongLen
    /\ sd.partial_schemas[1].len = ShortLen

\* C29: the sub-engine, started on any number of chunks and with any mode, reaches its
\* end and emits its output (the synthetic Tool message is appended and the loop goes
\* on to select_tool_output), every model call returning.
EngineTerminates ==
    (node = "discover_schema") ~> (node = "select_tool_output" /\ sd = SdIdle)

\* C31: while the sub-engine runs for a Tool message, its reason context is the reason
\* argument of the tool call, on the assistant message that made it, whose id is the
\* message's call id, and the empty string when that call has no reason argument.
ReasonContext ==
    (node = "discover_schema" /\ sd.node # "idle") =>
        \A j \in 1..Len(messages) : \A i \in 1..Len(messages[j].tool_calls) :
            messages[j].tool_calls[i].id = tool_output.tool_call_id =>
                sd.ai_message_context =
                    IF messages[j].tool_calls[i].reason = "absent" THEN ""
                    ELSE messages[j].tool_calls[i].reason

\* C32: when select_tool_output finds no output left, the state that the model node
\* runs on has current_tool_index back at -1 and an empty tool_outputs, and no output
\* of the last dispatch is missing from messages.
PendingResetBeforeModel ==
    [][(node = "select_tool_output" /\ node' = "model") =>
          /\ current_tool_index' = -1
          /\ tool_outputs' = <<>>
          /\ SelectSeq(tool_outputs, LAMBDA o : ~Answered(messages', o.tool_call_id)) = <<>>]_vars

\* C33: the session cache changes nothing but speed: for every cached session, the
\* prior messages that process_user_query takes from the cache are those it would
\* rebuild from the database, so that either way the agent loop is handed the same
\* message sequence.
CacheIsTransparent ==
    node = "idle" =>
        \A i \in 1..Len(agent_states_cache) :
            agent_states_cache[i].value.kind = "state" =>
                agent_states_cache[i].value.messages =
                    LoadHistory(chat_messages, agent_states_cache[i].sid)

\* C34: no raw exception text reaches the caller: the response and error fields of a
\* /query result never hold the message of a raised exception (in the model the
\* str(e) of an exception is written as the exception's class name).
NoRawExceptionText ==
    /\ response.error \notin {"AttributeError", "TypeError"}
    /\ response.response \notin {"AttributeError", "TypeError"}

\* every stored message has its session, bumped at or after the message; every
\* session that was bumped holds the message of that bump
MessageAndBumpTogether(T) ==
    /\ \A i \in 1..Len(T.chat_messages) :
          \E s \in T.chat_sessions :
              /\ s.session_id = T.chat_messages[i].session_id
              /\ s.updated_at >= T.chat_messages[i].timestamp
    /\ \A s \in T.chat_sessions :
          \/ s.updated_at = s.created_at
          \/ \E i \in 1..Len(T.chat_messages) :
                /\ T.chat_messages[i].session_id = s.session_id
                /\ T.chat_messages[i].timestamp = s.updated_at

\* C35 as stated: a create_session, save_message or delete_session that raised left
\* the stored sessions and messages as they were before the call and gave its
\* connection back to the pool; a stored message and the bump of its session's
\* updated_at are never stored one without the other.
FailedCallRollsBackAndReturns ==
    /\ MessageAndBumpTogether(unit.committed)
    /\ (unit.pc = "idle" /\ unit.raised) =>
          /\ unit.committed = unit.before
          /\ unit.pool = unit.pool_before

\* C35 amended: as above, but the connection goes back to the pool only when the
\* failure left it open; a connection the failure closed is dropped.
FailedCallRollsBack ==
    /\ MessageAndBumpTogether(unit.committed)
    /\ (unit.pc = "idle" /\ unit.raised) =>
          /\ unit.committed = unit.before
          /\ unit.pool = IF unit.closed THEN unit.pool_before - 1 ELSE unit.pool_before

\* a save_message failed after its INSERT, on a connection that stayed open, in a
\* database that holds a message
FailedCallRollsBackWitness ==
    /\ unit.pc = "idle"
    /\ unit.raised
    /\ unit.fn = "save_message"
    /\ unit.k = 3
    /\ ~unit.closed
    /\ unit.committed.chat_messages # <<>>

\* C36: every value stored in agent_states_cache is an agent state with a messages
\* list: the error value of a failed turn is never cached.
CacheHoldsStatesOnly ==
    \A i \in 1..Len(agent_states_cache) : agent_states_cache[i].value.kind = "state"

\* C37: under every interleaving of concurrent save_message calls on a session, the
\* stored rows of the session carry pairwise distinct sequence_order values that
\* grow in the order the saves completed, and every save that was made is stored.
SequenceOrdersFollowSaves ==
    /\ \A i, j \in 1..Len(chat_messages) :
          (i < j /\ chat_messages[i].session_id = chat_messages[j].session_id) =>
              chat_messages[i].sequence_order < chat_messages[j].sequence_order
    /\ \A c \in Callers :
          Len(procs[c].saved) =
              IF procs[c].pc = "done" THEN Len(TurnRows) ELSE procs[c].k - 1

\* C38: once DELETE /sessions/{id} has completed, the cache and the database hold no
\* state for that id, also when the request arrived while a /query on the same id
\* was running: the query that finishes does not put the session's state back.
DeletedStaysDeleted ==
    unit.fn = "done" =>
        /\ unit.session_id \notin chat_sessions
        /\ LoadHistory(chat_messages, unit.session_id) = <<>>
        /\ ~CacheHas(agent_states_cache, unit.session_id)
        /\ \A i \in 1..Len(chat_messages) : chat_messages[i].session_id # unit.session_id

\* the DELETE arrived while the turn on its session was between two nodes, and it
\* has removed the session with the rows and the cached state that turn left
DeletedStaysDeletedWitness ==
    /\ unit.fn = "done"
    /\ unit.node \notin {"idle"}
    /\ unit.session_id = session_id
    /\ last_call.ret = "200"
    /\ last_call.removed >= 2
    /\ result.kind = "state"

ChunkTerminates == <>(unit.pc = "return")

====
